---- MODULE Spec2Model ----
(***************************************************************************)
(* A model of the NASA RAG evaluation pipeline of Course_02/project/       *)
(* starter_files: the context assembler (rag_client.format_context), the   *)
(* answer generator adapter (llm_client.generate_response), the quality    *)
(* scorer adapter (ragas_evaluator.evaluate_response_quality), the         *)
(* single-question evaluator, the aggregator and the batch section of      *)
(* batch_evaluate.main.                                                    *)
(*                                                                         *)
(* Python values are modelled as follows.  Text is a TLA+ string (Len,     *)
(* SubSeq and \o act on its characters).  A dict is a function whose       *)
(* DOMAIN is its key set.  None is the record NoneValue.  The outcome of a *)
(* call is [kind |-> "return", value |-> v] or [kind |-> "raise",          *)
(* msg |-> str(e)].  A float score s is the integer 1000 * s.              *)
(***************************************************************************)
EXTENDS Integers, Sequences, FiniteSets, TLC

VARIABLES
    documents,      \* format_context: the list of document texts passed in
    metadatas,      \* format_context: the list of metadata dicts passed in
    ids,            \* the ids list the callers pass as fourth argument
    fc,             \* outcome of the format_context call ("idle" before it)
    conversation_history, \* generate_response: the history argument
    context,        \* generate_response: the context argument
    llm,            \* how the generation service answers this call
    messages,       \* the messages sent to the completion endpoint, if any
    gen,            \* outcome of the generate_response call ("idle" before it)
    ragas,          \* how the evaluation library answers this call
    packages,       \* what the process can import when it starts
    scores,         \* outcome of evaluate_response_quality ("idle" before it)
    openai_key,     \* args.openai_key (None when neither option nor variable is set)
    dataset,        \* the dataset file main is pointed at
    store,          \* how the document store answers when it is opened
    questions,      \* main: the question definitions parsed from the dataset
    envs,           \* how the store and the services answer for each question
    RAGAS_AVAILABLE, \* batch_evaluate.RAGAS_AVAILABLE, set at import
    verbose,        \* args.verbose
    output,         \* args.output (None when no report file is requested)
    pc,             \* main: the statement reached
    results,        \* main: the list of evaluation records
    calls,          \* the external calls made and the records appended, in order
    stats,          \* main: the aggregate ("idle" until computed)
    printed,        \* what print_results has written to the console
    saved,          \* the report file written, if any
    exit_code,      \* the exit status of the process (-1 while it runs)
    available_backends, \* chat: the number of stores discover_chroma_backends finds
    session_state,  \* chat: st.session_state, kept from one script run to the next
    collection,     \* chat main: the value bound to collection in this run
    page            \* chat: the notices the current script run has shown

ctxVars == <<documents, metadatas, ids, fc>>

genVars == <<conversation_history, context, llm, messages, gen>>

scoreVars == <<ragas, packages, scores>>

batchVars == <<openai_key, dataset, store, questions, envs, RAGAS_AVAILABLE, verbose, output, pc, results,
               calls, stats, printed, saved, exit_code>>

chatVars == <<available_backends, session_state, collection, page>>

batchVarsButPc == <<openai_key, dataset, store, questions, envs, RAGAS_AVAILABLE, verbose,
                    output, results, calls, stats, printed, saved, exit_code>>

vars == <<documents, metadatas, ids, fc,
          conversation_history, context, llm, messages, gen,
          ragas, packages, scores,
          openai_key, dataset, store,
          questions, envs, RAGAS_AVAILABLE, verbose, output, pc, results,
          calls, stats, printed, saved, exit_code,
          available_backends, session_state, collection, page>>

-----------------------------------------------------------------------------
(* Python values and built-ins *)

NoneValue == [none |-> TRUE]

\* A value that may be None elsewhere: the value x, told apart from None
Some(x) == [none |-> FALSE, value |-> x]

Return(v) == [kind |-> "return", value |-> v]

Raise(msg) == [kind |-> "raise", msg |-> msg]

Idle == [kind |-> "idle"]

Min(a, b) == IF a <= b THEN a ELSE b

Max(a, b) == IF a >= b THEN a ELSE b

\* c * n for a one-character string c
RECURSIVE Repeat(_, _)
Repeat(c, n) ==
    IF n = 0 THEN ""
    ELSE LET h == Repeat(c, n \div 2)
         IN  IF n % 2 = 0 THEN h \o h ELSE h \o h \o c

\* s[i] for a 1-based index
CharAt(s, i) == SubSeq(s, i, i)

\* s.startswith(prefix)
StartsWith(s, prefix) ==
    /\ Len(s) >= Len(prefix)
    /\ SubSeq(s, 1, Len(prefix)) = prefix

\* sub in s
Contains(s, sub) ==
    \E i \in 1..(Len(s) - Len(sub) + 1) : SubSeq(s, i, i + Len(sub) - 1) = sub

\* s.replace(old, new) for one-character old
RECURSIVE ReplaceFrom(_, _, _, _)
ReplaceFrom(s, i, old, new) ==
    IF i > Len(s) THEN ""
    ELSE (IF CharAt(s, i) = old THEN new ELSE CharAt(s, i))
         \o ReplaceFrom(s, i + 1, old, new)

Replace(s, old, new) == ReplaceFrom(s, 1, old, new)

LowerChars == "abcdefghijklmnopqrstuvwxyz"

UpperChars == "ABCDEFGHIJKLMNOPQRSTUVWXYZ"

IsLower(c) == \E k \in 1..Len(LowerChars) : CharAt(LowerChars, k) = c

IsUpper(c) == \E k \in 1..Len(UpperChars) : CharAt(UpperChars, k) = c

IsCased(c) == IsLower(c) \/ IsUpper(c)

ToUpper(c) ==
    IF IsLower(c)
    THEN CharAt(UpperChars, CHOOSE k \in 1..Len(LowerChars) : CharAt(LowerChars, k) = c)
    ELSE c

ToLower(c) ==
    IF IsUpper(c)
    THEN CharAt(LowerChars, CHOOSE k \in 1..Len(UpperChars) : CharAt(UpperChars, k) = c)
    ELSE c

\* s.title(): a cased character is upper-cased when it follows an uncased one
\* (or starts the text) and lower-cased otherwise
RECURSIVE TitleFrom(_, _, _)
TitleFrom(s, i, prevCased) ==
    IF i > Len(s) THEN ""
    ELSE LET c == CharAt(s, i)
         IN  (IF IsCased(c)
              THEN (IF prevCased THEN ToLower(c) ELSE ToUpper(c))
              ELSE c)
             \o TitleFrom(s, i + 1, IsCased(c))

Title(s) == TitleFrom(s, 1, FALSE)

\* sep.join(parts)
RECURSIVE Join(_, _)
Join(parts, sep) ==
    IF Len(parts) = 0 THEN ""
    ELSE IF Len(parts) = 1 THEN parts[1]
    ELSE parts[1] \o sep \o Join(Tail(parts), sep)

\* d.get(key, default)
Get(d, key, default) == IF key \in DOMAIN d THEN d[key] ELSE default

\* The TypeError CPython raises when f, defined with `takes` positional
\* parameters, is called with `given` positional arguments
TypeErrorText(f, takes, given) ==
    f \o "() takes " \o ToString(takes) \o " positional arguments but "
      \o ToString(given) \o " were given"

-----------------------------------------------------------------------------
(* batch_evaluate.parse_evaluation_dataset *)

\* The characters \s matches and strip() removes, among those that occur in
\* the texts used here
IsSpace(c) == c = " " \/ c = "\n" \/ c = "\t"

\* The text sub stands in s at position i
StartsAt(s, i, sub) ==
    /\ i >= 1
    /\ i + Len(sub) - 1 <= Len(s)
    /\ SubSeq(s, i, i + Len(sub) - 1) = sub

\* s.find(sub, from): the first position >= from at which sub stands, 0 if none
Find(s, sub, from) ==
    LET hits == { i \in from..(Len(s) - Len(sub) + 1) : StartsAt(s, i, sub) }
    IN  IF hits = {} THEN 0 ELSE CHOOSE i \in hits : \A j \in hits : i <= j

\* s.strip()
Strip(s) ==
    LET kept == { i \in 1..Len(s) : ~IsSpace(CharAt(s, i)) }
    IN  IF kept = {} THEN ""
        ELSE SubSeq(s, CHOOSE i \in kept : \A j \in kept : i <= j,
                       CHOOSE i \in kept : \A j \in kept : i >= j)

\* re.split(sep, s) for a literal sep
RECURSIVE Split(_, _)
Split(s, sep) ==
    LET p == Find(s, sep, 1)
    IN  IF p = 0 THEN <<s>>
        ELSE <<SubSeq(s, 1, p - 1)>> \o Split(SubSeq(s, p + Len(sep), Len(s)), sep)

\* The length of the run of whitespace that starts at position q of s
SpaceRun(s, q) ==
    LET stops == { i \in q..Len(s) : ~IsSpace(CharAt(s, i)) }
    IN  IF stops = {} THEN Len(s) - q + 1
        ELSE (CHOOSE i \in stops : \A j \in stops : i <= j) - q

\* The match of  marker \s*\n(.+?)(?=stop1|stop2|\Z)  with the marker standing
\* at position p of s: the captured group as Some(text), or None.  \s* is
\* greedy, so it gives back whitespace from the longest run down to none until
\* a newline and a first group character follow; without DOTALL (dotall
\* FALSE) the group characters are not newlines.  The lazy group ends at the
\* first position followed by a stop (an empty stop never matches) or by the
\* end of s.
block_match_at(s, p, marker, stops, dotall) ==
    LET q     == p + Len(marker)
        fits  == { k \in 0..SpaceRun(s, q) :
                     /\ StartsAt(s, q + k, "\n")
                     /\ q + k + 1 <= Len(s)
                     /\ dotall \/ CharAt(s, q + k + 1) # "\n" }
    IN  IF fits = {} THEN NoneValue
        ELSE LET k    == CHOOSE k \in fits : \A j \in fits : k >= j
                 g    == q + k + 1
                 ends == { e \in g..Len(s) :
                             \/ e = Len(s)
                             \/ \E i \in 1..Len(stops) : StartsAt(s, e + 1, stops[i]) }
             IN  Some(SubSeq(s, g, CHOOSE e \in ends : \A j \in ends : e <= j))

\* re.search of the pattern above in s: the match at the leftmost position of
\* the marker at which the pattern matches
block_search(s, marker, stops, dotall) ==
    LET hits == { p \in 1..(Len(s) - Len(marker) + 1) :
                    /\ StartsAt(s, p, marker)
                    /\ block_match_at(s, p, marker, stops, dotall) # NoneValue }
    IN  IF hits = {} THEN NoneValue
        ELSE block_match_at(s, CHOOSE p \in hits : \A j \in hits : p <= j,
                            marker, stops, dotall)

\* The section loop without the skip of line 68: a heading section that
\* quotes a question block yields a definition.
parse_section_keeps_comments(section) ==
    LET question_match      == block_search(section, "**Question:**",
                                            <<"\n**", "\n\n">>, TRUE)
        expected_match      == block_search(section,
                                            "**Expected Response Should Include:**",
                                            <<"\n**">>, TRUE)
        response_type_match == block_search(section, "**Response Type:**",
                                            <<"\n">>, FALSE)
    IN  IF question_match = NoneValue THEN <<>>
        ELSE << [question      |-> Strip(question_match.value),
                 expected_info |-> IF expected_match # NoneValue
                                   THEN Strip(expected_match.value) ELSE "",
                 response_type |-> IF response_type_match # NoneValue
                                   THEN Strip(response_type_match.value)
                                   ELSE "General"] >>

\* lines 67-89: the question definitions one section adds to the list
parse_section(section) ==
    LET question_match      == block_search(section, "**Question:**",
                                            <<"\n**", "\n\n">>, TRUE)
        expected_match      == block_search(section,
                                            "**Expected Response Should Include:**",
                                            <<"\n**">>, TRUE)
        response_type_match == block_search(section, "**Response Type:**",
                                            <<"\n">>, FALSE)
    IN  IF Strip(section) = "" \/ StartsWith(section, "#") THEN <<>>
        ELSE IF question_match = NoneValue THEN <<>>
        ELSE << [question      |-> Strip(question_match.value),
                 expected_info |-> IF expected_match # NoneValue
                                   THEN Strip(expected_match.value) ELSE "",
                 response_type |-> IF response_type_match # NoneValue
                                   THEN Strip(response_type_match.value)
                                   ELSE "General"] >>

\* lines 64-89: the loop over the sections from the i-th on
RECURSIVE parse_sections(_, _)
parse_sections(question_sections, i) ==
    IF i > Len(question_sections) THEN <<>>
    ELSE parse_section(question_sections[i]) \o parse_sections(question_sections, i + 1)

\* lines 47-99.  file.found tells whether the file can be opened (lines
\* 91-93), file.content is its text.
parse_evaluation_dataset(file) ==
    IF ~file.found THEN <<>>
    ELSE parse_sections(Split(file.content, "\n---\n"), 1)

-----------------------------------------------------------------------------
(* Dataset files.  A file is written as a sequence of sections joined by the
   separator line; a section is described by what was written into it. *)

\* A question section: an optional heading line, the question block, and
\* the optional expected-response and response-type blocks.  padded tells
\* whether the texts are written with blanks around them and without heading.
QuestionSection(padded, question, expected, type) ==
    [kind |-> "question", padded |-> padded, question |-> question,
     expected |-> expected, type |-> type]

\* A section that holds no question definition: kind is "empty", "comment"
\* (it begins with "#") or "prose" (it has no question block)
OtherSection(kind, text) == [kind |-> kind, text |-> text]

\* The text of a section as it stands in the file
section_text(sec) ==
    IF sec.kind # "question" THEN sec.text
    ELSE LET pad == IF sec.padded THEN "  " ELSE ""
         IN  "\n" \o (IF sec.padded THEN "" ELSE "## Question\n\n")
             \o "**Question:**\n" \o pad \o sec.question \o pad \o "\n"
             \o (IF sec.expected # NoneValue
                 THEN "\n**Expected Response Should Include:**\n"
                      \o sec.expected.value \o "\n"
                 ELSE "")
             \o (IF sec.type # NoneValue
                 THEN "\n**Response Type:**\n" \o pad \o sec.type.value \o pad \o "\n"
                 ELSE "")

\* The file with the given sections, each two separated by a line "---"
DatasetFile(found, sections) ==
    [found    |-> found,
     sections |-> sections,
     content  |-> Join([i \in 1..Len(sections) |-> section_text(sections[i])],
                       "\n---\n")]

-----------------------------------------------------------------------------
(* rag_client.format_context *)

max_doc_length == 1000

ContextHeader == "Retrieved Context from NASA Mission Documents:\n"

TruncationMarker == "..."

\* Mutation: the cap is applied from 1000 characters on, not above 1000
doc_content_truncates_at_cap(doc) ==
    IF Len(doc) >= max_doc_length
    THEN SubSeq(doc, 1, max_doc_length) \o TruncationMarker
    ELSE doc

\* lines 168-173
doc_content(doc) ==
    IF Len(doc) > max_doc_length
    THEN SubSeq(doc, 1, max_doc_length) \o TruncationMarker
    ELSE doc

\* Mutation: the fallbacks are not title-cased, and a missing source is
\* rendered like a missing mission
source_header_raw_fallback(i, metadata) ==
    LET mission  == IF "mission" \in DOMAIN metadata
                    THEN Title(Replace(metadata["mission"], "_", " ")) ELSE "unknown"
        source   == Get(metadata, "source", "Unknown")
        category == IF "document_category" \in DOMAIN metadata
                    THEN Title(Replace(metadata["document_category"], "_", " "))
                    ELSE "unknown"
    IN  "\n[Source " \o ToString(i) \o "] Mission: " \o mission
        \o " | Document: " \o source \o " | Category: " \o category

\* lines 150-164
source_header(i, metadata) ==
    LET mission        == Get(metadata, "mission", "unknown")
        mission_clean  == Title(Replace(mission, "_", " "))
        source         == Get(metadata, "source", "unknown")
        category       == Get(metadata, "document_category", "unknown")
        category_clean == Title(Replace(category, "_", " "))
    IN  "\n[Source " \o ToString(i) \o "] Mission: " \o mission_clean
        \o " | Document: " \o source \o " | Category: " \o category_clean

\* Mutation: the pairs are handled from the last one to the first
RECURSIVE context_sections_reversed(_, _, _)
context_sections_reversed(docs, metas, i) ==
    LET n == Min(Len(docs), Len(metas))
    IN  IF i > n THEN <<>>
        ELSE <<source_header(i, metas[n + 1 - i]), doc_content(docs[n + 1 - i])>>
             \o context_sections_reversed(docs, metas, i + 1)

\* lines 146-176: the list context_parts after the loop over
\* enumerate(zip(documents, metadatas), 1) has handled pairs i..n
RECURSIVE context_sections(_, _, _)
context_sections(docs, metas, i) ==
    IF i > Min(Len(docs), Len(metas)) THEN <<>>
    ELSE <<source_header(i, metas[i]), doc_content(docs[i])>>
         \o context_sections(docs, metas, i + 1)

context_parts(docs, metas) == <<ContextHeader>> \o context_sections(docs, metas, 1)

\* Mutation: the header is emitted for an empty document list too
format_context_always_heads(docs, metas) ==
    Join(context_parts(docs, metas), "\n")

\* lines 131-179
format_context(docs, metas) ==
    IF Len(docs) = 0 THEN ""
    ELSE Join(context_parts(docs, metas), "\n")

\* The number of positional parameters format_context is defined with (line 131)
FormatContextParams == 2

\* A call rag_client.format_context(docs, metas, ...) with nargs positional
\* arguments: the arguments are bound to the two parameters of line 131
call_format_context(docs, metas, nargs) ==
    IF nargs = FormatContextParams
    THEN Return(format_context(docs, metas))
    ELSE Raise(TypeErrorText("format_context", FormatContextParams, nargs))

\* chat.format_context (chat.py lines 75-79) forwards its four arguments
chat_format_context(docs, metas, distances, doc_ids) ==
    call_format_context(docs, metas, 4)

-----------------------------------------------------------------------------
(* Inputs of the context assembler *)

MaxDocs == 2

\* Document bodies around the truncation boundary.  Bodies are made of
\* characters that occur in no header, and hold no newline.
DocBodies ==
    { Repeat("q", n) : n \in {1, max_doc_length - 1, max_doc_length,
                              max_doc_length + 1, max_doc_length + 500} }

\* Metadata dicts as the store returns them: any of the three keys may be absent
Metadatas ==
    { [mission |-> "apollo_11", source |-> "a11_log.pdf",
       document_category |-> "flight_plan"],
      [source |-> "a13_log.pdf", document_category |-> "technical"],
      [k \in {} |-> ""] }

\* The ids of n retrieved documents: absent, or all equal
IdLists(n) ==
    { NoneValue, Some([i \in 1..n |-> "id1"]) }

SeqsUpTo(S, n) == UNION { [1..k -> S] : k \in 0..n }

IdleContext ==
    /\ documents = <<>>
    /\ metadatas = <<>>
    /\ ids = NoneValue
    /\ fc = Idle

\* No chat session: nothing discovered, stored, bound or shown
IdleChat ==
    /\ available_backends = 0
    /\ session_state = [k \in {} |-> NoneValue]
    /\ collection = NoneValue
    /\ page = <<>>

\* A process started with a key, pointed at a dataset without questions and
\* at a store whose collection can be opened
IdleStart ==
    /\ IdleChat
    /\ openai_key = Some("sk-test")
    /\ dataset = DatasetFile(TRUE, <<>>)
    /\ store = Return("collection")

IdleBatch ==
    /\ IdleStart
    /\ questions = <<>>
    /\ envs = <<>>
    /\ RAGAS_AVAILABLE = TRUE
    /\ verbose = FALSE
    /\ output = NoneValue
    /\ pc = "idle"
    /\ results = <<>>
    /\ calls = <<>>
    /\ stats = Idle
    /\ printed = [aggregate |-> FALSE, per_question |-> 0]
    /\ saved = NoneValue
    /\ exit_code = -1

\* The imports of ragas_evaluator.py: packages.ragas and
\* packages.langchain_openai tell whether the packages of lines 1-4 can be
\* imported, packages.ragas_names whether the installed ragas has the names
\* of lines 9-11
Installed(names) == [ragas |-> TRUE, langchain_openai |-> TRUE, ragas_names |-> names]

IdleScore ==
    /\ ragas = [available |-> TRUE, setup |-> Return(""),
                metrics |-> [m \in {} |-> Return(0)]]
    /\ packages = Installed(TRUE)
    /\ scores = Idle

IdleGen ==
    /\ conversation_history = <<>>
    /\ context = ""
    /\ llm = [client |-> Return(""), completion |-> Return(<<>>)]
    /\ messages = <<>>
    /\ gen = Idle

InitContext ==
    /\ IdleGen
    /\ IdleScore
    /\ IdleBatch
    /\ documents \in SeqsUpTo(DocBodies, MaxDocs)
    /\ metadatas \in [1..Len(documents) -> Metadatas]
    /\ ids \in IdLists(Len(documents))
    /\ fc = Idle

\* A direct call rag_client.format_context(documents, metadatas)
FormatContext ==
    /\ fc.kind = "idle"
    /\ fc' = call_format_context(documents, metadatas, 2)
    /\ UNCHANGED <<documents, metadatas, ids>>
    /\ UNCHANGED <<genVars, scoreVars, batchVars, chatVars>>

\* The call through chat.format_context(documents, metadatas, distances, ids)
ChatFormatContext ==
    /\ fc.kind = "idle"
    /\ fc' = chat_format_context(documents, metadatas, NoneValue, ids)
    /\ UNCHANGED <<documents, metadatas, ids>>
    /\ UNCHANGED <<genVars, scoreVars, batchVars, chatVars>>

NextContext == FormatContext \/ ChatFormatContext

SpecContext == InitContext /\ [][NextContext]_vars

-----------------------------------------------------------------------------
(* llm_client.generate_response *)

\* lines 24-37
system_prompt ==
    "You are an expert NASA historian and space mission specialist with deep knowledge of:\n"
    \o "- Apollo missions (Apollo 11, Apollo 13, and others)\n"
    \o "- Space Shuttle missions (including Challenger)\n"
    \o "- Technical mission details, procedures, and communications\n"
    \o "- Astronaut biographies and crew compositions\n"
    \o "- Mission transcripts and audio recordings\n"
    \o "\n"
    \o "Your role is to provide accurate, detailed, and engaging responses about NASA space missions.\n"
    \o "When answering questions:\n"
    \o "1. Use the provided context from mission documents to support your answers\n"
    \o "2. Be specific with facts, dates, crew names, and technical details\n"
    \o "3. If the context doesn't contain relevant information, acknowledge this\n"
    \o "4. Maintain a professional yet accessible tone\n"
    \o "5. Cite sources when referencing specific documents or transcripts"

\* line 55: the number of history messages forwarded
HistoryLimit == 10

ErrorMarker == "Error generating response: "

Message(role, content) == [role |-> role, content |-> content]

\* Mutation: the oldest turns are kept instead of the most recent ones
recent_history_keeps_oldest(history) ==
    SubSeq(history, 1, Min(HistoryLimit, Len(history)))

\* line 55: conversation_history[-10:]
recent_history(history) ==
    SubSeq(history, Max(1, Len(history) - HistoryLimit + 1), Len(history))

\* line 60
context_message(ctx) ==
    "Relevant information from mission documents:\n\n" \o ctx
    \o "\n\nPlease use this information to answer the user's question."

\* lines 50-64: the messages array
build_messages(user_message, ctx, history) ==
    <<Message("system", system_prompt)>>
    \o (IF Len(history) > 0 THEN recent_history(history) ELSE <<>>)
    \o (IF ctx # "" THEN <<Message("system", context_message(ctx))>> ELSE <<>>)
    \o <<Message("user", user_message)>>

\* The service as seen by one call: service.client is the outcome of
\* constructing OpenAI(...) (lines 41-47), service.completion the outcome of
\* client.chat.completions.create(...) (lines 67-72), whose value is the list
\* response.choices of message contents (a text as Some(text), or None).
\* lines 66-75 with the handler of lines 77-78: the text handed to the caller
\* for an exception with message detail
error_response(detail) == Return(Some(ErrorMarker \o detail))

\* Mutation: a failure of the completion call is not caught
generate_result_propagates(service) ==
    IF service.client.kind = "raise" THEN error_response(service.client.msg)
    ELSE IF service.completion.kind = "raise" THEN Raise(service.completion.msg)
    ELSE IF Len(service.completion.value) = 0
         THEN error_response("list index out of range")
    ELSE Return(service.completion.value[1])

\* lines 22-78: what generate_response hands to its caller.  Client
\* construction, the request and response.choices[0] all run inside the try
\* block of line 22, whose handler (lines 77-78) returns the marked text.
generate_result(service) ==
    IF service.client.kind = "raise" THEN error_response(service.client.msg)
    ELSE IF service.completion.kind = "raise"
         THEN error_response(service.completion.msg)
    ELSE IF Len(service.completion.value) = 0
         THEN error_response("list index out of range")
    ELSE Return(service.completion.value[1])

\* lines 22-78: the messages that reach the completion endpoint (none when the
\* client could not be constructed)
generate_request(user_message, ctx, history, service) ==
    IF service.client.kind = "raise" THEN <<>>
    ELSE build_messages(user_message, ctx, history)

-----------------------------------------------------------------------------
(* Inputs of the answer generator *)

MaxHistory == 12

UserMessage == "What happened on Apollo 13?"

\* A history of n turns, user and assistant alternating, each turn told apart
\* by its number
History(n) ==
    [ i \in 1..n |-> Message(IF i % 2 = 1 THEN "user" ELSE "assistant",
                             "turn " \o ToString(i)) ]

Histories == { History(n) : n \in 0..MaxHistory }

GenContexts == { "", format_context(<<"q">>, <<[mission |-> "apollo_13"]>>) }

\* Answers of the generation service: authentication, network and rate-limit
\* failures (one with an empty message), a response without choices, a
\* response without content, a generated text, and a generated text that
\* itself starts with the marker
Services ==
    { [client |-> Raise("The api_key client option must be set"),
       completion |-> Return(<<>>)] }
    \cup
    { [client |-> Return(""), completion |-> c] :
        c \in { Raise("Connection error."), Raise(""),
                Raise("Error code: 429 - rate limit exceeded"),
                Return(<<>>),
                Return(<<NoneValue>>),
                Return(<<Some("Apollo 13 was launched on April 11, 1970.")>>),
                Return(<<Some("Error generating response: is what the console showed.")>>) } }

InitGen ==
    /\ IdleContext
    /\ IdleScore
    /\ IdleBatch
    /\ conversation_history \in Histories
    /\ context \in GenContexts
    /\ llm \in Services
    /\ messages = <<>>
    /\ gen = Idle

\* A call generate_response(openai_key, UserMessage, context,
\* conversation_history, model, base_url)
GenerateResponse ==
    /\ gen.kind = "idle"
    /\ messages' = generate_request(UserMessage, context, conversation_history, llm)
    /\ gen' = generate_result(llm)
    /\ UNCHANGED <<conversation_history, context, llm>>
    /\ UNCHANGED <<ctxVars, scoreVars, batchVars, chatVars>>

NextGen == GenerateResponse

SpecGen == InitGen /\ [][NextGen]_vars

-----------------------------------------------------------------------------
(* ragas_evaluator.evaluate_response_quality *)

\* A value of the metrics mapping: a float (as 1000 times its value) or a text
Num(x) == [t |-> "num", v |-> x]

Str(x) == [t |-> "str", s |-> x]

\* isinstance(x, (int, float))
IsNumber(x) == x.t = "num"

EmptyDict == [k \in {} |-> Str("")]

\* d[key] = value
SetItem(d, key, value) == (key :> value) @@ d

\* lines 46-50: metric.__class__.__name__ of the metrics list, in its order
MetricNames ==
    <<"ResponseRelevancy", "Faithfulness", "NonLLMContextPrecisionWithReference">>

\* lines 62-75: the entries one metric leaves in acc; outcome is what
\* metric.single_turn_score(sample) does
metric_entry(acc, metric_name, outcome) ==
    IF outcome.kind = "return"
    THEN SetItem(acc, metric_name, Num(outcome.value))
    ELSE SetItem(SetItem(acc, metric_name, Num(0)),
                 metric_name \o "_error", Str(outcome.msg))

\* Mutation: the first metric that raises ends the loop
RECURSIVE evaluate_metrics_stops_at_failure(_, _, _)
evaluate_metrics_stops_at_failure(lib, i, acc) ==
    IF i > Len(MetricNames) THEN acc
    ELSE IF lib.metrics[MetricNames[i]].kind = "raise"
         THEN metric_entry(acc, MetricNames[i], lib.metrics[MetricNames[i]])
    ELSE evaluate_metrics_stops_at_failure(lib, i + 1,
             metric_entry(acc, MetricNames[i], lib.metrics[MetricNames[i]]))

\* lines 60-75: the loop over metrics from the i-th metric on
RECURSIVE evaluate_metrics(_, _, _)
evaluate_metrics(lib, i, acc) ==
    IF i > Len(MetricNames) THEN acc
    ELSE evaluate_metrics(lib, i + 1,
             metric_entry(acc, MetricNames[i], lib.metrics[MetricNames[i]]))

\* Mutation: the setup of lines 38-58 runs outside the try block
evaluate_response_quality_setup_unguarded(lib) ==
    IF ~lib.available THEN Return("error" :> Str("RAGAS not available"))
    ELSE IF lib.setup.kind = "raise" THEN Raise(lib.setup.msg)
    ELSE Return(evaluate_metrics(lib, 1, EmptyDict))

\* lines 16-81.  lib.available is the module's RAGAS_AVAILABLE (lines 8-14),
\* lib.setup the outcome of constructing the evaluator LLM, the embeddings,
\* the metrics and the sample (lines 38-58), lib.metrics[m] the outcome of
\* single_turn_score for metric m.
evaluate_response_quality(lib) ==
    IF ~lib.available THEN Return("error" :> Str("RAGAS not available"))
    ELSE IF lib.setup.kind = "raise"
         THEN Return("error" :> Str("Evaluation failed: " \o lib.setup.msg))
    ELSE Return(evaluate_metrics(lib, 1, EmptyDict))

-----------------------------------------------------------------------------
(* Inputs of the quality scorer *)

\* What single_turn_score does for one metric: a score of 1.0, 0.6 or 0.0, or
\* an exception
MetricOutcomes ==
    { Return(1000), Return(600), Return(0), Raise("Request timed out.") }

Libraries ==
    { [available |-> TRUE, setup |-> Return(""), metrics |-> f] :
        f \in [{ MetricNames[i] : i \in 1..Len(MetricNames) } -> MetricOutcomes] }
    \cup
    { [available |-> a, setup |-> Raise("The api_key client option must be set"),
       metrics |-> [m \in { MetricNames[i] : i \in 1..Len(MetricNames) }
                      |-> Return(1000)]] : a \in BOOLEAN }

InitScore ==
    /\ IdleContext
    /\ IdleGen
    /\ IdleBatch
    /\ ragas \in Libraries
    /\ packages = Installed(ragas.available)
    /\ scores = Idle

\* A call evaluate_response_quality(question, answer, contexts)
EvaluateResponseQuality ==
    /\ scores.kind = "idle"
    /\ scores' = evaluate_response_quality(ragas)
    /\ UNCHANGED <<ragas, packages>>
    /\ UNCHANGED <<ctxVars, genVars, batchVars, chatVars>>

NextScore == EvaluateResponseQuality

SpecScore == InitScore /\ [][NextScore]_vars

-----------------------------------------------------------------------------
(* batch_evaluate.run_single_evaluation *)

\* bool(x) for an optional text: None and "" are falsy
Truthy(x) == x # NoneValue /\ x.value # ""

\* lines 124-131
new_result(question) ==
    [question |-> question, answer |-> NoneValue, context |-> NoneValue,
     retrieved_docs |-> 0, metrics |-> EmptyDict, error |-> NoneValue]

\* line 137: not docs_result or not docs_result.get("documents").  A store
\* response is None or Some(dict); the dict's "documents" entry is the list of
\* per-query result lists.
no_documents(docs_result) ==
    \/ docs_result = NoneValue
    \/ "documents" \notin DOMAIN docs_result.value
    \/ Len(docs_result.value["documents"]) = 0

\* lines 172-185: the metrics of a generated answer.  The record is paired
\* with the external calls made.
score_step(result, env, ragas_available) ==
    IF ragas_available
    THEN LET m == evaluate_response_quality(env.ragas)
         IN  [record |-> [result EXCEPT !.metrics =
                             IF m.kind = "return" THEN m.value
                             ELSE "error" :> Str(m.msg)],
              calls |-> <<"score">>]
    ELSE [record |-> [result EXCEPT !.metrics = "info" :> Str("RAGAS not available")],
          calls |-> <<>>]

\* lines 156-185: the answer step and what follows it.  An exception (a None
\* answer has no startswith) reaches the handler of lines 187-196.
answer_step(result, env, ragas_available) ==
    LET g == generate_result(env.service)
    IN  IF g.kind = "raise"
        THEN [record |-> [result EXCEPT !.error = Some(g.msg)],
              calls |-> <<"generate">>]
        ELSE IF g.value = NoneValue
        THEN [record |-> [result EXCEPT
                  !.error = Some("'NoneType' object has no attribute 'startswith'")],
              calls |-> <<"generate">>]
        ELSE IF StartsWith(g.value.value, "Error generating response:")
        THEN [record |-> [result EXCEPT !.answer = g.value, !.error = g.value],
              calls |-> <<"generate">>]
        ELSE LET scored == score_step([result EXCEPT !.answer = g.value],
                                      env, ragas_available)
             IN  [record |-> scored.record,
                  calls |-> <<"generate">> \o scored.calls]

\* Mutation: the context is built by the two-argument call
\* rag_client.format_context(documents[0], metadatas[0])
context_step_two_arguments(result, docs, env, ragas_available) ==
    LET counted == [result EXCEPT !.retrieved_docs = Len(docs["documents"][1])]
        ctx     == call_format_context(docs["documents"][1], docs["metadatas"][1], 2)
    IN  IF ctx.kind = "raise"
        THEN [record |-> [counted EXCEPT !.error = Some(ctx.msg)], calls |-> <<>>]
        ELSE answer_step([counted EXCEPT !.context = Some(ctx.value)],
                         env, ragas_available)

\* Mutation: the answer is generated before the context is built
context_step_generates_first(result, docs, env, ragas_available) ==
    LET counted == [result EXCEPT !.retrieved_docs = Len(docs["documents"][1])]
        g       == generate_result(env.service)
        ctx     == call_format_context(docs["documents"][1], docs["metadatas"][1], 4)
    IN  IF g.kind = "raise"
        THEN [record |-> [counted EXCEPT !.error = Some(g.msg)],
              calls |-> <<"generate">>]
        ELSE IF ctx.kind = "raise"
        THEN [record |-> [counted EXCEPT !.error = Some(ctx.msg)],
              calls |-> <<"generate">>]
        ELSE [record |-> [counted EXCEPT !.context = Some(ctx.value),
                                         !.answer = g.value],
              calls |-> <<"generate">>]

\* lines 141-185: the context step and what follows it.  The context is built
\* by rag_client.format_context(documents[0], metadatas[0], distances, ids).
context_step(result, docs, env, ragas_available) ==
    LET counted == [result EXCEPT !.retrieved_docs = Len(docs["documents"][1])]
        ctx     == call_format_context(docs["documents"][1], docs["metadatas"][1], 4)
    IN  IF ctx.kind = "raise"
        THEN [record |-> [counted EXCEPT !.error = Some(ctx.msg)], calls |-> <<>>]
        ELSE LET answered == answer_step([counted EXCEPT !.context = Some(ctx.value)],
                                         env, ragas_available)
             IN  answered

\* Mutation: an exception raised by retrieval leaves the function
run_single_evaluation_unguarded(question, env, ragas_available) ==
    LET result == new_result(question)
    IN  IF env.retrieval.kind = "raise"
        THEN [outcome |-> Raise(env.retrieval.msg), calls |-> <<"retrieve">>]
        ELSE IF no_documents(env.retrieval.value)
        THEN [outcome |-> Return([result EXCEPT !.error = Some("No documents retrieved")]),
              calls |-> <<"retrieve">>]
        ELSE LET rest == context_step(result, env.retrieval.value.value, env,
                                      ragas_available)
             IN  [outcome |-> Return(rest.record),
                  calls |-> <<"retrieve">> \o rest.calls]

\* lines 102-198.  env.retrieval is the outcome of
\* rag_client.retrieve_documents(collection, question, n_results), env.service
\* the generation service and env.ragas the evaluation library for this
\* question.  The value is the outcome of the call and the external calls made.
run_single_evaluation(question, env, ragas_available) ==
    LET result == new_result(question)
    IN  IF env.retrieval.kind = "raise"
        THEN [outcome |-> Return([result EXCEPT !.error = Some(env.retrieval.msg)]),
              calls |-> <<"retrieve">>]
        ELSE IF no_documents(env.retrieval.value)
        THEN [outcome |-> Return([result EXCEPT !.error = Some("No documents retrieved")]),
              calls |-> <<"retrieve">>]
        ELSE LET rest == context_step(result, env.retrieval.value.value, env,
                                      ragas_available)
             IN  [outcome |-> Return(rest.record),
                  calls |-> <<"retrieve">> \o rest.calls]

-----------------------------------------------------------------------------
(* batch_evaluate.calculate_statistics *)

\* Mutation: a record whose error is the recognized dimension mismatch is not
\* counted as failed
is_failed_unless_expected(result) ==
    /\ Truthy(result.error)
    /\ ~Contains(result.error.value, "expecting embedding with dimension")

\* line 222: if result.get('error')
is_failed(result) == Truthy(result.error)

\* lines 221-232: the records whose metrics are collected
successful_results(rs) == SelectSeq(rs, LAMBDA r : ~is_failed(r))

\* Mutation: the 0.0 recorded next to a "<metric>_error" text is left out
collected_skips_failed_metrics(result) ==
    { k \in DOMAIN result.metrics :
        /\ IsNumber(result.metrics[k])
        /\ k # "error"
        /\ (k \o "_error") \notin DOMAIN result.metrics }

\* line 229: the entries collected from one record
collected(result) ==
    { k \in DOMAIN result.metrics : IsNumber(result.metrics[k]) /\ k # "error" }

\* lines 228-232: metric_scores[metric_name], in the order of the records
RECURSIVE metric_scores(_, _)
metric_scores(rs, metric_name) ==
    IF Len(rs) = 0 THEN <<>>
    ELSE (IF ~is_failed(rs[1]) /\ metric_name \in collected(rs[1])
          THEN <<rs[1].metrics[metric_name].v>> ELSE <<>>)
         \o metric_scores(Tail(rs), metric_name)

RECURSIVE SumSeq(_)
SumSeq(xs) == IF Len(xs) = 0 THEN 0 ELSE xs[1] + SumSeq(Tail(xs))

RECURSIVE SumSquares(_)
SumSquares(xs) == IF Len(xs) = 0 THEN 0 ELSE xs[1] * xs[1] + SumSquares(Tail(xs))

\* sorted(xs)
RECURSIVE Sorted(_)
Sorted(xs) ==
    IF Len(xs) = 0 THEN <<>>
    ELSE LET i == CHOOSE i \in 1..Len(xs) : \A j \in 1..Len(xs) : xs[i] <= xs[j]
         IN  <<xs[i]>> \o Sorted(SubSeq(xs, 1, i - 1) \o SubSeq(xs, i + 1, Len(xs)))

\* A quotient of two integers, kept exact
Ratio(num, den) == [num |-> num, den |-> den]

\* lines 237-244.  mean and median are exact quotients; stdev is given by its
\* square, the sample variance (0 for a single score).
metric_summary(xs) ==
    LET n      == Len(xs)
        sorted == Sorted(xs)
    IN  [mean     |-> Ratio(SumSeq(xs), n),
         median   |-> IF n % 2 = 1 THEN Ratio(sorted[(n + 1) \div 2], 1)
                      ELSE Ratio(sorted[n \div 2] + sorted[n \div 2 + 1], 2),
         variance |-> IF n > 1
                      THEN Ratio(n * SumSquares(xs) - SumSeq(xs) * SumSeq(xs),
                                 n * (n - 1))
                      ELSE Ratio(0, 1),
         min      |-> sorted[1],
         max      |-> sorted[n],
         count    |-> n]

\* lines 201-246
calculate_statistics(rs) ==
    LET names == UNION { collected(rs[i]) :
                           i \in { j \in 1..Len(rs) : ~is_failed(rs[j]) } }
    IN  [total_questions |-> Len(rs),
         successful      |-> Len(successful_results(rs)),
         failed          |-> Len(rs) - Len(successful_results(rs)),
         metrics         |-> [m \in names |-> metric_summary(metric_scores(rs, m))]]

-----------------------------------------------------------------------------
(* batch_evaluate.print_results *)

\* lines 300-319: the per-question entry of a record can be printed unless the
\* record has no error and no answer (line 313 slices result['answer'])
printable(result) == is_failed(result) \/ result.answer # NoneValue

\* The number of records before the first one that cannot be printed
RECURSIVE printable_prefix(_)
printable_prefix(rs) ==
    IF Len(rs) = 0 \/ ~printable(rs[1]) THEN 0
    ELSE 1 + printable_prefix(Tail(rs))

\* lines 249-321: the aggregate block is always printed, the per-question
\* block only under verbose
print_results(rs, verb) ==
    IF ~verb
    THEN [outcome |-> Return(""),
          printed |-> [aggregate |-> TRUE, per_question |-> 0]]
    ELSE IF printable_prefix(rs) = Len(rs)
    THEN [outcome |-> Return(""),
          printed |-> [aggregate |-> TRUE, per_question |-> Len(rs)]]
    ELSE [outcome |-> Raise("'NoneType' object is not subscriptable"),
          printed |-> [aggregate |-> TRUE, per_question |-> printable_prefix(rs)]]

-----------------------------------------------------------------------------
(* batch_evaluate.main, lines 421-464: the batch over the loaded questions *)

\* One external call or append, tagged with the question it belongs to
CallsOf(i, ops) == [ k \in 1..Len(ops) |-> [q |-> i, op |-> ops[k]] ]

\* lines 425-441: one iteration of the loop over the questions.  An exception
\* leaving run_single_evaluation would leave main and end the process with
\* status 1.
EvaluateQuestion ==
    /\ pc = "loop"
    /\ LET i   == Len(results) + 1
           q   == questions[i]
           run == run_single_evaluation(q.question, envs[i], RAGAS_AVAILABLE)
       IN  IF run.outcome.kind = "return"
           THEN /\ results' = Append(results,
                        run.outcome.value @@ [expected_info |-> q.expected_info,
                                              response_type |-> q.response_type])
                /\ calls' = calls \o CallsOf(i, run.calls \o <<"append">>)
                /\ pc' = IF i = Len(questions) THEN "stats" ELSE "loop"
                /\ UNCHANGED exit_code
           ELSE /\ calls' = calls \o CallsOf(i, run.calls)
                /\ pc' = "done"
                /\ exit_code' = 1
                /\ UNCHANGED results
    /\ UNCHANGED <<openai_key, dataset, store>>
    /\ UNCHANGED chatVars
    /\ UNCHANGED <<questions, envs, RAGAS_AVAILABLE, verbose, output, stats,
                   printed, saved>>
    /\ UNCHANGED <<ctxVars, genVars, scoreVars>>

\* line 444
CalculateStatistics ==
    /\ pc = "stats"
    /\ stats' = Return(calculate_statistics(results))
    /\ pc' = "print"
    /\ UNCHANGED <<openai_key, dataset, store>>
    /\ UNCHANGED chatVars
    /\ UNCHANGED <<questions, envs, RAGAS_AVAILABLE, verbose, output, results,
                   calls, printed, saved, exit_code>>
    /\ UNCHANGED <<ctxVars, genVars, scoreVars>>

\* line 447: an exception leaving print_results leaves main and ends the
\* process with status 1
PrintResults ==
    /\ pc = "print"
    /\ LET p == print_results(results, verbose)
       IN  /\ printed' = p.printed
           /\ IF p.outcome.kind = "return"
              THEN pc' = "save" /\ UNCHANGED exit_code
              ELSE pc' = "done" /\ exit_code' = 1
    /\ UNCHANGED <<openai_key, dataset, store>>
    /\ UNCHANGED chatVars
    /\ UNCHANGED <<questions, envs, RAGAS_AVAILABLE, verbose, output, results,
                   calls, stats, saved>>
    /\ UNCHANGED <<ctxVars, genVars, scoreVars>>

\* lines 449-457
SaveOutput ==
    /\ pc = "save"
    /\ saved' = IF Truthy(output)
                THEN Some([statistics |-> stats.value, results |-> results])
                ELSE saved
    /\ pc' = "exit"
    /\ UNCHANGED <<openai_key, dataset, store>>
    /\ UNCHANGED chatVars
    /\ UNCHANGED <<questions, envs, RAGAS_AVAILABLE, verbose, output, results,
                   calls, stats, printed, exit_code>>
    /\ UNCHANGED <<ctxVars, genVars, scoreVars>>

\* lines 459-464: success_rate < 0.5, with success_rate the quotient
\* successful / total_questions (0 for no questions)
below_half(st) ==
    IF st.total_questions > 0 THEN 2 * st.successful < st.total_questions ELSE TRUE

ExitPolicy ==
    /\ pc = "exit"
    /\ exit_code' = IF below_half(stats.value) THEN 1 ELSE 0
    /\ pc' = "done"
    /\ UNCHANGED <<openai_key, dataset, store>>
    /\ UNCHANGED chatVars
    /\ UNCHANGED <<questions, envs, RAGAS_AVAILABLE, verbose, output, results,
                   calls, stats, printed, saved>>
    /\ UNCHANGED <<ctxVars, genVars, scoreVars>>

-----------------------------------------------------------------------------
(* Inputs of the batch *)

MaxQuestions == 2

MaxRecords == 4

\* The section of the dataset file that holds the question definition q
SectionOf(q) ==
    QuestionSection(FALSE, q.question, Some(q.expected_info), Some(q.response_type))

\* lines 85-89: the i-th question definition of the dataset
QuestionDef(i) ==
    [question      |-> "Question " \o ToString(i) \o "?",
     expected_info |-> "- fact " \o ToString(i),
     response_type |-> IF i % 2 = 1 THEN "Factual" ELSE "General"]

\* Store responses: None, a dict without "documents", an empty "documents"
\* list, the store's answer for a query with no hit (one empty per-query
\* list), and two hits
StoreResponses ==
    { NoneValue,
      Some([k \in {} |-> <<>>]),
      Some([documents |-> <<>>, metadatas |-> <<>>]),
      Some([documents |-> << <<>> >>, metadatas |-> << <<>> >>, ids |-> << <<>> >>]),
      Some([documents |-> << <<"Houston, we've had a problem.", "Oxygen tank 2 failed.">> >>,
            metadatas |-> << <<[mission |-> "apollo_13"], [mission |-> "apollo_13"]>> >>,
            ids       |-> << <<"id1", "id2">> >>]) }

\* What rag_client.retrieve_documents does for one question
Retrievals ==
    { Return(r) : r \in StoreResponses }
    \cup { Raise(""), Raise("Connection refused"),
           Raise("Collection expecting embedding with dimension of 1536, got 384") }

WorkingService ==
    [client |-> Return(""),
     completion |-> Return(<<Some("Apollo 13 was launched on April 11, 1970.")>>)]

FailingService == [client |-> Return(""), completion |-> Raise("Connection error.")]

WorkingLibrary ==
    [available |-> TRUE, setup |-> Return(""),
     metrics |-> [m \in { MetricNames[i] : i \in 1..Len(MetricNames) } |-> Return(1000)]]

\* has the store returned at least one document for the query
has_hits(retrieval) ==
    /\ retrieval.kind = "return"
    /\ ~no_documents(retrieval.value)
    /\ Len(retrieval.value.value["documents"][1]) > 0

\* The environment of one question.  The generation service is varied for
\* the questions that have hits.
QuestionEnvs ==
    { [retrieval |-> r, service |-> WorkingService, ragas |-> WorkingLibrary] :
        r \in Retrievals }
    \cup
    { [retrieval |-> r, service |-> FailingService, ragas |-> WorkingLibrary] :
        r \in { x \in Retrievals : has_hits(x) } }

InitBatch ==
    /\ IdleContext
    /\ IdleChat
    /\ IdleGen
    /\ IdleScore
    /\ \E n \in 1..MaxQuestions :
          /\ questions = [i \in 1..n |-> QuestionDef(i)]
          /\ envs \in [1..n -> QuestionEnvs]
    /\ openai_key = Some("sk-test")
    /\ dataset = DatasetFile(TRUE, [i \in 1..Len(questions) |-> SectionOf(questions[i])])
    /\ store = Return("collection")
    /\ RAGAS_AVAILABLE \in BOOLEAN
    /\ verbose \in BOOLEAN
    /\ output \in {NoneValue, Some("report.json")}
    /\ pc = "loop"
    /\ results = <<>>
    /\ calls = <<>>
    /\ stats = Idle
    /\ printed = [aggregate |-> FALSE, per_question |-> 0]
    /\ saved = NoneValue
    /\ exit_code = -1

NextBatch ==
    \/ EvaluateQuestion
    \/ CalculateStatistics
    \/ PrintResults
    \/ SaveOutput
    \/ ExitPolicy

\* main from line 421 on, entered with an opened collection and at least one
\* question
SpecBatch == InitBatch /\ [][NextBatch]_vars

\* An evaluation record with the given answer, metrics and error
RecordOf(answer, metrics, error) ==
    [new_result("Question?") EXCEPT !.answer = answer, !.context = Some("ctx"),
                                    !.metrics = metrics, !.error = error]

Answer == Some("Apollo 13 was launched on April 11, 1970.")

\* Records handed to calculate_statistics: scored answers, a partially scored
\* answer, unscored answers, and failed records without and with metrics, one
\* of them with the empty message of an exception raised without arguments
StatRecords ==
    { RecordOf(Answer, ("Faithfulness" :> Num(800)) @@ ("ResponseRelevancy" :> Num(600)),
               NoneValue),
      RecordOf(Answer, ("Faithfulness" :> Num(600)), NoneValue),
      RecordOf(Answer, ("Faithfulness" :> Num(1000)) @@ ("ResponseRelevancy" :> Num(0))
                       @@ ("ResponseRelevancy_error" :> Str("Request timed out.")),
               NoneValue),
      RecordOf(Answer, "info" :> Str("RAGAS not available"), NoneValue),
      RecordOf(Answer, "error" :> Str("Evaluation failed: no key"), NoneValue),
      RecordOf(NoneValue, EmptyDict, Some("No documents retrieved")),
      RecordOf(Answer, ("Faithfulness" :> Num(1000)), Some("Error generating response: x")),
      RecordOf(NoneValue, EmptyDict, Some("")) }

InitStats ==
    /\ IdleContext
    /\ IdleGen
    /\ IdleScore
    /\ IdleStart
    /\ questions = <<>>
    /\ envs = <<>>
    /\ RAGAS_AVAILABLE = TRUE
    /\ verbose = FALSE
    /\ output = NoneValue
    /\ pc = "stats"
    /\ results \in SeqsUpTo(StatRecords, MaxRecords)
    /\ calls = <<>>
    /\ stats = Idle
    /\ printed = [aggregate |-> FALSE, per_question |-> 0]
    /\ saved = NoneValue
    /\ exit_code = -1

NextStats == CalculateStatistics

\* calculate_statistics applied to a list of records
SpecStats == InitStats /\ [][NextStats]_vars

-----------------------------------------------------------------------------
(* Reading a context block back: its lines and its source sections *)

NewlinePositions(s) == { i \in 1..Len(s) : CharAt(s, i) = "\n" }

\* s.split("\n"): the lines of s, without their newlines
Lines(s) ==
    LET NL     == NewlinePositions(s)
        n      == Cardinality(NL)
        nth(k) == IF k = 0 THEN 0
                  ELSE IF k > n THEN Len(s) + 1
                  ELSE CHOOSE p \in NL : Cardinality({ j \in NL : j < p }) = k - 1
    IN  [ k \in 1..(n + 1) |-> SubSeq(s, nth(k - 1) + 1, nth(k) - 1) ]

\* The indices of the lines that are source headers
SectionLines(lines) == { k \in 1..Len(lines) : StartsWith(lines[k], "[Source ") }

\* The body printed under the k-th source header: the header text ends with a
\* newline and every source header starts with one, so the lines of a block
\* are header, "", then "", "[Source k] ...", body for each section
SectionBody(lines, k) == lines[3 * k + 2]

\* s[:n]
Prefix(s, n) == SubSeq(s, 1, Min(n, Len(s)))

-----------------------------------------------------------------------------
(* Claims about the context assembler *)

\* Two input positions carry the same identity key: the same id when ids are
\* passed, else the same text (equal texts have equal normalized texts)
SameKey(i, j) ==
    IF ids # NoneValue THEN ids.value[i] = ids.value[j]
    ELSE documents[i] = documents[j]

\* The input positions that are the first occurrence of their key
Retained == { i \in 1..Len(documents) : \A j \in 1..(i - 1) : ~SameKey(j, i) }

\* The k-th retained input position
NthRetained(k) ==
    CHOOSE i \in Retained : Cardinality({ j \in Retained : j < i }) = k - 1

\* C1: a context returned by format_context holds exactly one source section
\* per identity key, the sections standing in the order of the first
\* occurrences of their keys.
C1_DedupOneSectionPerKey ==
    (fc.kind = "return" /\ Len(documents) > 0) =>
        LET lines == Lines(fc.value)
        IN  /\ Cardinality(SectionLines(lines)) = Cardinality(Retained)
            /\ \A k \in 1..Cardinality(Retained) :
                  Prefix(SectionBody(lines, k), 1000)
                      = Prefix(documents[NthRetained(k)], 1000)

\* C10: in a returned context a body longer than 1000 characters appears as
\* its first 1000 characters followed by "...", and a body of at most 1000
\* characters appears in full with nothing appended.
C10_Truncation ==
    (fc.kind = "return" /\ Len(documents) > 0) =>
        LET lines == Lines(fc.value)
        IN  /\ Cardinality(SectionLines(lines)) = Len(documents)
            /\ Len(lines) = 3 * Len(documents) + 2
            /\ \A k \in 1..Len(documents) :
                  LET doc  == documents[k]
                      body == SectionBody(lines, k)
                  IN  IF Len(doc) > 1000
                      THEN /\ Len(body) = 1003
                           /\ Prefix(body, 1000) = Prefix(doc, 1000)
                           /\ SubSeq(body, 1001, 1003) = "..."
                      ELSE body = doc

\* A context was returned for a 1500-character body and a 1000-character body
C10_Witness ==
    /\ fc.kind = "return"
    /\ \E k \in 1..Len(documents) : Len(documents[k]) = 1500
    /\ \E k \in 1..Len(documents) : Len(documents[k]) = 1000

-----------------------------------------------------------------------------
(* Claims about the answer generator *)

\* The failure the service signals to this call, if any
ServiceFailed ==
    \/ llm.client.kind = "raise"
    \/ llm.completion.kind = "raise"

FailureDetail ==
    IF llm.client.kind = "raise" THEN llm.client.msg ELSE llm.completion.msg

\* C8: generate_response never raises: when client construction or the
\* completion call fails it returns "Error generating response: " followed by
\* the failure detail, and when the service answers with a generated text it
\* returns that text.
C8_GeneratorNeverRaises ==
    gen.kind # "idle" =>
        /\ gen.kind = "return"
        /\ ServiceFailed =>
              gen.value = Some("Error generating response: " \o FailureDetail)
        /\ (~ServiceFailed /\ Len(llm.completion.value) > 0) =>
              gen.value = llm.completion.value[1]

\* The completion call failed and the caller got the marked text
C8_Witness ==
    /\ gen.kind = "return"
    /\ llm.client.kind = "return"
    /\ llm.completion = Raise("Connection error.")
    /\ gen.value = Some("Error generating response: Connection error.")

\* C9: the request holds the persona system message, then exactly the last
\* min(n, 10) turns of the history in their order, then the rest of the
\* prompt, whose last message is the user's question.
C9_HistoryTruncation ==
    (gen.kind # "idle" /\ llm.client.kind = "return") =>
        LET n    == Len(conversation_history)
            kept == IF n < 10 THEN n ELSE 10
            rest == IF context = "" THEN 1 ELSE 2
        IN  /\ Len(messages) = 1 + kept + rest
            /\ messages[1].role = "system"
            /\ messages[1].content = system_prompt
            /\ \A k \in 1..kept :
                  messages[1 + k] = conversation_history[n - kept + k]
            /\ messages[Len(messages)] = Message("user", UserMessage)
            /\ context # "" =>
                  /\ messages[Len(messages) - 1].role = "system"
                  /\ Contains(messages[Len(messages) - 1].content, context)

\* A request was sent for a history of more than ten turns
C9_Witness ==
    /\ gen.kind = "return"
    /\ Len(messages) > 0
    /\ Len(conversation_history) > 10
    /\ context # ""

-----------------------------------------------------------------------------
(* Claims about the quality scorer *)

MetricSet == { MetricNames[i] : i \in 1..Len(MetricNames) }

FailingMetrics == { m \in MetricSet : ragas.metrics[m].kind = "raise" }

\* C7: whichever metrics raise, every metric is evaluated: the mapping holds
\* the score of each metric that did not fail, 0.0 for each failing metric,
\* and a "<metric>_error" text for each failing metric and for no other.
C7_ScorerFailureIsolation ==
    (scores.kind # "idle" /\ ragas.available /\ ragas.setup.kind = "return") =>
        /\ scores.kind = "return"
        /\ DOMAIN scores.value
              = MetricSet \cup { m \o "_error" : m \in FailingMetrics }
        /\ \A m \in MetricSet \ FailingMetrics :
              scores.value[m] = Num(ragas.metrics[m].value)
        /\ \A m \in FailingMetrics :
              /\ scores.value[m] = Num(0)
              /\ scores.value[m \o "_error"] = Str(ragas.metrics[m].msg)

\* Exactly the first of the three metrics raised and the mapping was returned
C7_Witness ==
    /\ scores.kind = "return"
    /\ ragas.available
    /\ ragas.setup.kind = "return"
    /\ FailingMetrics = { MetricNames[1] }
    /\ scores.value[MetricNames[2]] = Num(600)

-----------------------------------------------------------------------------
(* Claims about the single-question evaluator and the batch *)

\* The external calls made for question i
OpsOf(i) == { calls[k].op : k \in { j \in 1..Len(calls) : calls[j].q = i } }

\* The store holds no document for the query: None, no "documents" entry, an
\* empty "documents" list, or a single empty per-query list
ZeroDocuments(retrieval) ==
    /\ retrieval.kind = "return"
    /\ \/ retrieval.value = NoneValue
       \/ "documents" \notin DOMAIN retrieval.value.value
       \/ retrieval.value.value["documents"] = <<>>
       \/ retrieval.value.value["documents"] = << <<>> >>

\* C2: a question whose store response holds zero documents gets a record
\* with error "No documents retrieved", no answer, no context and no metrics,
\* and neither the generator nor the scorer is called for it.
C2_NoDocumentsRecord ==
    \A i \in 1..Len(results) :
        ZeroDocuments(envs[i].retrieval) =>
            /\ results[i].error = Some("No documents retrieved")
            /\ results[i].answer = NoneValue
            /\ results[i].context = NoneValue
            /\ results[i].metrics = EmptyDict
            /\ OpsOf(i) \cap {"generate", "score"} = {}

\* The generation service fails for question i, so that the text the
\* generator returns for it carries the marker
GenerationFails(i) ==
    \/ envs[i].service.client.kind = "raise"
    \/ envs[i].service.completion.kind = "raise"

GenerationFailureText(i) ==
    "Error generating response: "
    \o (IF envs[i].service.client.kind = "raise"
        THEN envs[i].service.client.msg ELSE envs[i].service.completion.msg)

C4_BatchSurvivesFaults ==
    /\ Len(results) <= Len(questions)
    /\ \A i \in 1..Len(results) :
          /\ results[i].question = questions[i].question
          /\ results[i].expected_info = questions[i].expected_info
          /\ results[i].response_type = questions[i].response_type
    /\ pc # "loop" => Len(results) = Len(questions)

\* The batch ended with a record for each of two questions, retrieval having
\* raised for one and context assembly for the other
C4_Witness ==
    /\ pc = "done"
    /\ Len(questions) = 2
    /\ Len(results) = 2
    /\ envs[1].retrieval.kind = "raise"
    /\ results[1].error = Some("Connection refused")
    /\ has_hits(envs[2].retrieval)
    /\ results[2].error # NoneValue
    /\ results[2].context = NoneValue

\* A record with an error: its error field is present
HasError(r) == r.error # NoneValue

CountOf(S) == Cardinality(S)

\* The scores of metric m carried by the records without error, in the order
\* of the records
RECURSIVE ScoresOf(_, _)
ScoresOf(rs, m) ==
    IF Len(rs) = 0 THEN <<>>
    ELSE (IF ~HasError(rs[1]) /\ m \in DOMAIN rs[1].metrics
             /\ rs[1].metrics[m].t = "num"
          THEN <<rs[1].metrics[m].v>> ELSE <<>>)
         \o ScoresOf(Tail(rs), m)

\* C5: total is the number of records, failed the number of records with an
\* error, successful the rest; each metric's count is the number of records
\* without error that carry a numeric score for it, and its mean, median,
\* minimum and maximum are those of the scores of these records alone.
C5_AggregateCounts ==
    pc = "print" =>
        LET st    == stats.value
            idx   == 1..Len(results)
            ok    == { i \in idx : ~HasError(results[i]) }
            has(m) == { i \in ok : m \in DOMAIN results[i].metrics
                                   /\ results[i].metrics[m].t = "num" }
            names == { m \in UNION { DOMAIN results[i].metrics : i \in ok } :
                         m # "error" /\ has(m) # {} }
        IN  /\ st.total_questions = Len(results)
            /\ st.failed = CountOf(idx \ ok)
            /\ st.successful = st.total_questions - st.failed
            /\ DOMAIN st.metrics = names
            /\ \A m \in names :
                  /\ st.metrics[m].count = CountOf(has(m))
                  /\ st.metrics[m] = metric_summary(ScoresOf(results, m))

-----------------------------------------------------------------------------
(* Claims about the steps of the single-question evaluator *)

\* C11: for every question whose store response holds at least one document,
\* the context step returns a context block: the record's context is set and
\* the generator is called for the question.
C11_ContextStepSucceeds ==
    \A i \in 1..Len(results) :
        has_hits(envs[i].retrieval) =>
            /\ results[i].context # NoneValue
            /\ "generate" \in OpsOf(i)

\* The generation service answers question i with a text that does not carry
\* the marker
GenerationSucceeds(i) ==
    LET g == generate_result(envs[i].service)
    IN  /\ g.kind = "return"
        /\ g.value # NoneValue
        /\ ~StartsWith(g.value.value, "Error generating response:")

-----------------------------------------------------------------------------
(* Further claims about the context assembler *)

\* The line of the k-th source header of a block
SectionHeader(lines, k) == lines[3 * k + 1]

-----------------------------------------------------------------------------
(* format_context followed by generate_response: the context block built from
   the retrieved documents is the context argument of the generator *)

\* A call generate_response(openai_key, UserMessage, context, [], model,
\* base_url) whose context argument is the block format_context returned
GenerateFromContext ==
    /\ fc.kind = "return"
    /\ gen.kind = "idle"
    /\ \E service \in { WorkingService, FailingService } :
          /\ llm' = service
          /\ context' = fc.value
          /\ messages' = generate_request(UserMessage, fc.value, <<>>, service)
          /\ gen' = generate_result(service)
    /\ UNCHANGED conversation_history
    /\ UNCHANGED <<ctxVars, scoreVars, batchVars, chatVars>>

NextAsk == FormatContext \/ GenerateFromContext

SpecAsk == InitContext /\ [][NextAsk]_vars

\* The positions of the context system message in a request
ContextMessages(msgs) ==
    { k \in 1..Len(msgs) :
        /\ msgs[k].role = "system"
        /\ StartsWith(msgs[k].content, "Relevant information from mission documents:") }

\* C14: format_context returns "" for an empty document list and a block
\* that starts with the header for a non-empty one, and the request built by
\* generate_response from that block holds the context system message
\* exactly when at least one document was supplied.
C14_EmptyContext ==
    /\ fc.kind = "return" =>
          IF Len(documents) = 0 THEN fc.value = ""
          ELSE fc.value # "" /\ StartsWith(fc.value, ContextHeader)
    /\ gen.kind # "idle" =>
          /\ Cardinality(ContextMessages(messages))
                = (IF Len(documents) > 0 THEN 1 ELSE 0)
          /\ Len(messages) = (IF Len(documents) > 0 THEN 3 ELSE 2)
          /\ messages[Len(messages)] = Message("user", UserMessage)

\* A request was built from the block of an empty document list
C14_Witness ==
    /\ gen.kind = "return"
    /\ Len(documents) = 0
    /\ fc.value = ""
    /\ Len(messages) = 2

-----------------------------------------------------------------------------
(* Claims about the source headers *)

\* s.endswith(suffix)
EndsWith(s, suffix) ==
    /\ Len(suffix) <= Len(s)
    /\ SubSeq(s, Len(s) - Len(suffix) + 1, Len(s)) = suffix

\* C15: no call of format_context fails for a key the metadata omit (the only
\* call that raises is the four-argument one, for its arity), and in a
\* returned block the header of a document whose metadata omit mission,
\* source or document_category shows "Unknown" as mission, "unknown" as
\* document and "Unknown" as category respectively.
C15_FallbackFormatting ==
    (fc.kind # "idle" /\ Len(documents) > 0) =>
        \/ /\ fc.kind = "raise"
           /\ fc.msg = TypeErrorText("format_context", 2, 4)
        \/ /\ fc.kind = "return"
           /\ LET lines == Lines(fc.value)
              IN  \A k \in 1..Len(documents) :
                    LET header == SectionHeader(lines, k)
                        keys   == DOMAIN metadatas[k]
                    IN  /\ "mission" \notin keys =>
                              StartsWith(header, "[Source " \o ToString(k)
                                                 \o "] Mission: Unknown | Document: ")
                        /\ "source" \notin keys =>
                              Contains(header, " | Document: unknown | Category: ")
                        /\ "document_category" \notin keys =>
                              EndsWith(header, " | Category: Unknown")

\* A block was returned for a document without any metadata key
C15_Witness ==
    /\ fc.kind = "return"
    /\ Len(documents) > 0
    /\ DOMAIN metadatas[1] = {}
    /\ SectionHeader(Lines(fc.value), 1)
          = "[Source 1] Mission: Unknown | Document: unknown | Category: Unknown"

-----------------------------------------------------------------------------
(* Process start: the import of ragas_evaluator *)

\* ragas_evaluator.py lines 1-14: the outcome of `import ragas_evaluator`.
\* Lines 1-4 import ragas.llms, ragas.embeddings and langchain_openai
\* unguarded; lines 8-14 set the module's RAGAS_AVAILABLE.
import_ragas_evaluator(pkgs) ==
    IF ~pkgs.ragas THEN Raise("No module named 'ragas'")
    ELSE IF ~pkgs.langchain_openai THEN Raise("No module named 'langchain_openai'")
    ELSE Return(pkgs.ragas_names)

\* batch_evaluate.py lines 31-37: RAGAS_AVAILABLE as batch_evaluate sets it
batch_ragas_available(pkgs) == import_ragas_evaluator(pkgs).kind = "return"

\* `import ragas_evaluator` followed by
\* ragas_evaluator.evaluate_response_quality(question, answer, contexts)
imported_evaluate_response_quality(pkgs, lib) ==
    LET module == import_ragas_evaluator(pkgs)
    IN  IF module.kind = "raise" THEN module
        ELSE evaluate_response_quality([lib EXCEPT !.available = module.value])

Installations ==
    [ragas : BOOLEAN, langchain_openai : BOOLEAN, ragas_names : BOOLEAN]

InitImport ==
    /\ IdleContext
    /\ IdleGen
    /\ IdleStart
    /\ questions = <<>>
    /\ envs = <<>>
    /\ RAGAS_AVAILABLE = FALSE
    /\ verbose = FALSE
    /\ output = NoneValue
    /\ pc = "import"
    /\ results = <<>>
    /\ calls = <<>>
    /\ stats = Idle
    /\ printed = [aggregate |-> FALSE, per_question |-> 0]
    /\ saved = NoneValue
    /\ exit_code = -1
    /\ packages \in Installations
    /\ ragas \in { l \in Libraries : l.available }
    /\ scores = Idle

\* batch_evaluate.py lines 31-37, run when batch_evaluate is loaded
BatchImport ==
    /\ pc = "import"
    /\ RAGAS_AVAILABLE' = batch_ragas_available(packages)
    /\ pc' = "imported"
    /\ UNCHANGED <<openai_key, dataset, store>>
    /\ UNCHANGED chatVars
    /\ UNCHANGED <<questions, envs, verbose, output, results, calls, stats,
                   printed, saved, exit_code>>
    /\ UNCHANGED <<ctxVars, genVars, scoreVars>>

\* A caller that imports the scorer adapter and calls it
ImportAndEvaluate ==
    /\ scores.kind = "idle"
    /\ scores' = imported_evaluate_response_quality(packages, ragas)
    /\ UNCHANGED <<ragas, packages>>
    /\ UNCHANGED <<ctxVars, genVars, batchVars, chatVars>>

NextImport == BatchImport \/ ImportAndEvaluate

SpecImport == InitImport /\ [][NextImport]_vars

\* The evaluation capability is missing when the process starts
CapabilityMissing ==
    ~packages.ragas \/ ~packages.langchain_openai \/ ~packages.ragas_names

\* C16: when the evaluation capability is missing at process start, the
\* scorer adapter called directly returns a mapping that holds only a text
\* marker and no numeric score, and when the packages themselves are missing
\* batch_evaluate runs with scoring switched off.
C16_ScoringUnavailable ==
    /\ (pc = "imported" /\ (~packages.ragas \/ ~packages.langchain_openai)) =>
          ~RAGAS_AVAILABLE
    /\ (scores.kind # "idle" /\ CapabilityMissing) =>
          /\ scores.kind = "return"
          /\ DOMAIN scores.value # {}
          /\ \A k \in DOMAIN scores.value : scores.value[k].t = "str"

-----------------------------------------------------------------------------
(* Further claims about the quality scorer *)

\* C17: when the setup of the evaluator fails, evaluate_response_quality
\* returns the mapping whose only key is "error", holding "Evaluation
\* failed: " and the failure text; it does not raise and the mapping holds
\* no metric.
C17_SetupFailure ==
    (scores.kind # "idle" /\ pc = "idle" /\ ragas.available
       /\ ragas.setup.kind = "raise") =>
        /\ scores.kind = "return"
        /\ DOMAIN scores.value = {"error"}
        /\ scores.value["error"] = Str("Evaluation failed: " \o ragas.setup.msg)
        /\ \A m \in MetricSet : m \notin DOMAIN scores.value

\* The scorer was called while the evaluator's client could not be constructed
C17_Witness ==
    /\ pc = "idle"
    /\ ragas.available
    /\ ragas.setup = Raise("The api_key client option must be set")
    /\ scores.kind = "return"
    /\ "error" \in DOMAIN scores.value

-----------------------------------------------------------------------------
(* Further claims about the batch *)

\* The questions whose retrieval raises the store's dimension mismatch
Mismatched ==
    { i \in 1..Len(envs) :
        /\ envs[i].retrieval.kind = "raise"
        /\ Contains(envs[i].retrieval.msg, "expecting embedding with dimension") }

\* C18: a question whose pipeline raises the dimension mismatch gets a record
\* whose error is the exception's message, verbatim; the record is counted as
\* failed and adds no score to any metric, and the loop goes on to the
\* remaining questions.
C18_DimensionMismatch ==
    /\ \A i \in Mismatched \cap 1..Len(results) :
          /\ results[i].error = Some(envs[i].retrieval.msg)
          /\ results[i].metrics = EmptyDict
    /\ stats.kind = "return" =>
          /\ stats.value.failed >= CountOf(Mismatched)
          /\ stats.value.successful <= Len(results) - CountOf(Mismatched)
          /\ \A m \in DOMAIN stats.value.metrics :
                stats.value.metrics[m].count <= Len(results) - CountOf(Mismatched)
    /\ (Mismatched # {} /\ pc # "loop") => Len(results) = Len(questions)

\* The first of two questions raised the mismatch, the second was evaluated
\* after it, and the aggregate counts the first as failed
C18_Witness ==
    /\ Len(questions) = 2
    /\ Mismatched = {1}
    /\ Len(results) = 2
    /\ results[1].error
          = Some("Collection expecting embedding with dimension of 1536, got 384")
    /\ results[2].error = Some("No documents retrieved")
    /\ stats.kind = "return"
    /\ stats.value.failed = 2

-----------------------------------------------------------------------------
(* batch_evaluate.main, lines 388-419: the start of main *)

\* The number of positional parameters of rag_client.initialize_rag_system
\* (rag_client.py line 75)
InitializeRagSystemParams == 2

\* rag_client.py lines 75-94, called with nargs positional arguments: opened
\* is the outcome of opening the store and getting the collection
call_initialize_rag_system(opened, nargs) ==
    IF nargs = InitializeRagSystemParams THEN opened
    ELSE Raise(TypeErrorText("initialize_rag_system", InitializeRagSystemParams, nargs))

\* lines 390-393
ValidateKey ==
    /\ pc = "start"
    /\ IF Truthy(openai_key)
       THEN pc' = "load" /\ UNCHANGED exit_code
       ELSE pc' = "done" /\ exit_code' = 1
    /\ UNCHANGED <<openai_key, dataset, store>>
    /\ UNCHANGED chatVars
    /\ UNCHANGED <<questions, envs, RAGAS_AVAILABLE, verbose, output, results,
                   calls, stats, printed, saved>>
    /\ UNCHANGED <<ctxVars, genVars, scoreVars>>

\* lines 395-401
LoadDataset ==
    /\ pc = "load"
    /\ questions' = parse_evaluation_dataset(dataset)
    /\ IF Len(questions') > 0
       THEN pc' = "initialize" /\ UNCHANGED exit_code
       ELSE pc' = "done" /\ exit_code' = 1
    /\ UNCHANGED <<openai_key, dataset, store>>
    /\ UNCHANGED chatVars
    /\ UNCHANGED <<envs, RAGAS_AVAILABLE, verbose, output, results,
                   calls, stats, printed, saved>>
    /\ UNCHANGED <<ctxVars, genVars, scoreVars>>

\* lines 409-423: rag_client.initialize_rag_system(args.chroma_dir,
\* args.collection, args.openai_key, args.embedding_model,
\* args.openai_base_url); an exception ends the process with status 1
InitializeStore ==
    /\ pc = "initialize"
    /\ LET opened == call_initialize_rag_system(store, 5)
       IN  IF opened.kind = "return"
           THEN pc' = "loop" /\ UNCHANGED exit_code
           ELSE pc' = "done" /\ exit_code' = 1
    /\ UNCHANGED <<openai_key, dataset, store>>
    /\ UNCHANGED chatVars
    /\ UNCHANGED <<questions, envs, RAGAS_AVAILABLE, verbose, output, results,
                   calls, stats, printed, saved>>
    /\ UNCHANGED <<ctxVars, genVars, scoreVars>>

\* How the store answers when it is opened: the collection, a missing
\* collection, or a directory that cannot be opened
Stores ==
    { Return("collection"),
      Raise("Collection nasa_space_missions_text does not exist."),
      Raise("unable to open database file") }

Keys == { NoneValue, Some(""), Some("sk-test") }

\* Dataset files: not found, or holding 0..MaxQuestions question sections
Datasets ==
    { DatasetFile(FALSE, <<>>) }
    \cup { DatasetFile(TRUE, [i \in 1..n |-> SectionOf(QuestionDef(i))]) :
             n \in 0..MaxQuestions }

InitMain ==
    /\ IdleContext
    /\ IdleChat
    /\ IdleGen
    /\ IdleScore
    /\ openai_key \in Keys
    /\ dataset \in Datasets
    /\ store \in Stores
    /\ questions = <<>>
    /\ envs \in [1..Len(dataset.sections) -> QuestionEnvs]
    /\ RAGAS_AVAILABLE \in BOOLEAN
    /\ verbose \in BOOLEAN
    /\ output = NoneValue
    /\ pc = "start"
    /\ results = <<>>
    /\ calls = <<>>
    /\ stats = Idle
    /\ printed = [aggregate |-> FALSE, per_question |-> 0]
    /\ saved = NoneValue
    /\ exit_code = -1

\* main from line 388 to the statement that ends it.  The call of line 410
\* raises for every store, so the statements from line 421 on are not
\* reached from here.
NextMain == ValidateKey \/ LoadDataset \/ InitializeStore

SpecMain == InitMain /\ [][NextMain]_vars

\* The batch-level conditions
KeyMissing == ~Truthy(openai_key)

NoQuestions == Len(parse_evaluation_dataset(dataset)) = 0

StoreUnreachable == store.kind = "raise"

\* The questions for which run_single_evaluation was called
Evaluated == { calls[k].q : k \in { j \in 1..Len(calls) : calls[j].op = "retrieve" } }

\* C19: when main has ended, it has ended before evaluating any question if
\* the key is missing, the dataset has no question or the store cannot be
\* opened, and otherwise it has called run_single_evaluation for every
\* question.
C19_OnlyBatchLevelFatal ==
    pc = "done" =>
        IF KeyMissing \/ NoQuestions \/ StoreUnreachable
        THEN exit_code = 1 /\ Evaluated = {}
        ELSE Evaluated = 1..Len(questions) /\ Len(questions) > 0

-----------------------------------------------------------------------------
(* Claims about the fields of a record *)

\* Retrieval failed for question i: it raised, or the store had no document
RetrievalFails(i) ==
    \/ envs[i].retrieval.kind = "raise"
    \/ ZeroDocuments(envs[i].retrieval)

-----------------------------------------------------------------------------
(* The dataset parser applied to files *)

MaxSections == 2

Flags == BOOLEAN \X BOOLEAN \X BOOLEAN

\* Question sections: written plainly under a heading or padded with blanks,
\* with and without the expected-response block (of two lines) and the
\* response-type block; the question text tells the sections apart
QuestionSections ==
    { QuestionSection(f[1],
                      "Question " \o (IF f[1] THEN "p" ELSE "h")
                                  \o (IF f[2] THEN "e" ELSE "n")
                                  \o (IF f[3] THEN "t" ELSE "n") \o "?",
                      IF f[2] THEN Some("- fact 1\n- fact 2") ELSE NoneValue,
                      IF f[3] THEN Some("Factual") ELSE NoneValue) : f \in Flags }

\* Sections without a question definition: empty ones, ones that begin with
\* "#" (a title, and a heading that directly follows the separator line), and
\* one without a question block
OtherSections ==
    { OtherSection("empty", ""),
      OtherSection("empty", "\n  \n"),
      OtherSection("comment", "# NASA RAG Evaluation Dataset\n"),
      OtherSection("comment", "## Question\n\n**Question:**\nSkipped?\n"),
      OtherSection("prose", "\nNotes on the dataset.\n") }

Files ==
    { DatasetFile(TRUE, secs) :
        secs \in SeqsUpTo(QuestionSections \cup OtherSections, MaxSections) }

InitParse ==
    /\ IdleContext
    /\ IdleChat
    /\ IdleGen
    /\ IdleScore
    /\ openai_key = Some("sk-test")
    /\ dataset \in Files
    /\ store = Return("collection")
    /\ questions = <<>>
    /\ envs = <<>>
    /\ RAGAS_AVAILABLE = TRUE
    /\ verbose = FALSE
    /\ output = NoneValue
    /\ pc = "load"
    /\ results = <<>>
    /\ calls = <<>>
    /\ stats = Idle
    /\ printed = [aggregate |-> FALSE, per_question |-> 0]
    /\ saved = NoneValue
    /\ exit_code = -1

NextParse == LoadDataset

\* main at line 397: parse_evaluation_dataset applied to a dataset file
SpecParse == InitParse /\ [][NextParse]_vars

\* The question definition written into a question section
Written(sec) ==
    [question      |-> sec.question,
     expected_info |-> IF sec.expected # NoneValue THEN sec.expected.value ELSE "",
     response_type |-> IF sec.type # NoneValue THEN sec.type.value ELSE "General"]

\* The definitions written into the question sections among secs, in order
RECURSIVE WrittenIn(_)
WrittenIn(secs) ==
    IF Len(secs) = 0 THEN <<>>
    ELSE (IF secs[1].kind = "question" THEN <<Written(secs[1])>> ELSE <<>>)
         \o WrittenIn(Tail(secs))

\* C21: the parser returns one definition per question section of the file,
\* in file order, each with the question, expected-response and type texts
\* as written without the blanks around them, "" for an omitted
\* expected-response block and "General" for an omitted type block; empty
\* sections, sections that begin with "#" and sections without a question
\* block add nothing.
C21_DatasetParsing ==
    pc # "load" => questions = WrittenIn(dataset.sections)

\* A file of a padded question section without type block and a plain one
\* without expected-response block was parsed into two definitions
C21_Witness ==
    /\ pc = "initialize"
    /\ Len(dataset.sections) = 2
    /\ dataset.sections[1].kind = "question"
    /\ dataset.sections[1].padded
    /\ dataset.sections[1].type = NoneValue
    /\ dataset.sections[2].kind = "question"
    /\ dataset.sections[2].expected = NoneValue
    /\ Len(questions) = 2
    /\ questions[1].response_type = "General"
    /\ questions[2].expected_info = ""


-----------------------------------------------------------------------------
(* The order of the external calls of the batch *)

\* The external calls and the append logged for question i, in order
QuestionCalls(i) ==
    LET own == SelectSeq(calls, LAMBDA c : c.q = i)
    IN  [k \in 1..Len(own) |-> own[k].op]

\* The call sequences of one question that follow the pipeline: retrieval,
\* then generation, then scoring, each at most once, closed by the append
PipelineOrders ==
    LET steps == { <<"retrieve">>, <<"retrieve", "generate">>,
                   <<"retrieve", "generate", "score">> }
    IN  { <<>> } \cup steps \cup { st \o <<"append">> : st \in steps }

Occurs(op, ops) == \E k \in 1..Len(ops) : ops[k] = op

-----------------------------------------------------------------------------
(* Records produced by the exception handler *)

\* The record of question i comes from the handler of lines 187-196: the
\* retrieval call raised, or the steps after the guard of line 137 raised
ThroughHandler(i) ==
    \/ envs[i].retrieval.kind = "raise"
    \/ /\ ~no_documents(envs[i].retrieval.value)
       /\ call_format_context(envs[i].retrieval.value.value["documents"][1],
                              envs[i].retrieval.value.value["metadatas"][1],
                              4).kind = "raise"

\* C23: every record that comes from the exception handler is counted as
\* failed, whatever the message of the exception: once the statistics are
\* computed, failed is at least the number of such records, and none of them
\* is among the successful ones.
C23_HandlerRecordsFailed ==
    /\ \A i \in 1..Len(results) : ThroughHandler(i) => is_failed(results[i])
    /\ stats.kind = "return" =>
          stats.value.failed >=
              Cardinality({ i \in 1..Len(results) : ThroughHandler(i) })


-----------------------------------------------------------------------------
(* Failed metrics and non-numeric entries in the aggregate *)

\* The records without error in which metric m failed: they carry 0.0 for m
\* next to the text "<m>_error" (ragas_evaluator.py lines 71-75)
FailedMetricIn(rs, m) ==
    { i \in 1..Len(rs) :
        /\ ~HasError(rs[i])
        /\ m \in DOMAIN rs[i].metrics
        /\ rs[i].metrics[m] = Num(0)
        /\ (m \o "_error") \in DOMAIN rs[i].metrics }

\* The records without error that carry a number for m
NumericIn(rs, m) ==
    { i \in 1..Len(rs) :
        /\ ~HasError(rs[i])
        /\ m \in DOMAIN rs[i].metrics
        /\ rs[i].metrics[m].t = "num" }

\* C24: once the statistics are computed, a metric is in the aggregate
\* exactly when a record without error carries a number for it; no aggregate
\* metric is named "info", "error" or "<metric>_error"; and the 0.0 of a
\* failed metric counts as a score: it is in the metric's count, it is the
\* minimum, and mean, median and maximum are those of all the numbers
\* including it.
C24_FailedMetricCounts ==
    pc = "print" =>
        LET st    == stats.value
            names == { m \in UNION { DOMAIN results[i].metrics : i \in 1..Len(results) } :
                         NumericIn(results, m) # {} }
        IN  /\ DOMAIN st.metrics = names
            /\ \A m \in DOMAIN st.metrics :
                  /\ m \notin {"info", "error"}
                  /\ ~EndsWith(m, "_error")
                  /\ st.metrics[m].count = Cardinality(NumericIn(results, m))
                  /\ LET xs     == ScoresOf(results, m)
                         sorted == Sorted(xs)
                         n      == Len(xs)
                     IN  /\ n = st.metrics[m].count
                         /\ st.metrics[m].mean = Ratio(SumSeq(xs), n)
                         /\ st.metrics[m].min = sorted[1]
                         /\ st.metrics[m].max = sorted[n]
                         /\ st.metrics[m].median =
                               IF n % 2 = 1 THEN Ratio(sorted[(n + 1) \div 2], 1)
                               ELSE Ratio(sorted[n \div 2] + sorted[n \div 2 + 1], 2)
                         /\ FailedMetricIn(results, m) # {} =>
                               /\ st.metrics[m].min = 0
                               /\ n >= Cardinality(FailedMetricIn(results, m))

\* The aggregate of a scored record, a record with a failed metric and records
\* with only texts: the failed metric is counted twice over the two scores
C24_Witness ==
    /\ pc = "print"
    /\ FailedMetricIn(results, "ResponseRelevancy") # {}
    /\ \E i \in 1..Len(results) : "info" \in DOMAIN results[i].metrics
    /\ \E i \in 1..Len(results) : "error" \in DOMAIN results[i].metrics
    /\ stats.value.metrics["ResponseRelevancy"].count = 2
    /\ stats.value.metrics["ResponseRelevancy"].min = 0
    /\ stats.value.metrics["ResponseRelevancy"].mean = Ratio(600, 2)
    /\ DOMAIN stats.value.metrics = {"Faithfulness", "ResponseRelevancy"}


-----------------------------------------------------------------------------
(* run_single_evaluation, lines 156-185: the answer step on a built context *)

\* The record after line 153: the documents are counted and the context is set
contextualized(question, docs) ==
    [new_result(question) EXCEPT
        !.retrieved_docs = Len(docs["documents"][1]),
        !.context = Some(format_context(docs["documents"][1], docs["metadatas"][1]))]

\* Store responses with at least one document
Hits == { r \in StoreResponses : has_hits(Return(r)) }

\* The state in which line 156 is entered: one question with retrieved
\* documents and a context, and any generation service and evaluation library
InitAnswer ==
    /\ IdleContext
    /\ IdleGen
    /\ IdleScore
    /\ IdleStart
    /\ questions = <<QuestionDef(1)>>
    /\ \E r \in Hits, s \in Services, l \in Libraries :
          envs = <<[retrieval |-> Return(r), service |-> s, ragas |-> l]>>
    /\ RAGAS_AVAILABLE \in BOOLEAN
    /\ verbose = FALSE
    /\ output = NoneValue
    /\ pc = "answer"
    /\ results = <<>>
    /\ calls = <<>>
    /\ stats = Idle
    /\ printed = [aggregate |-> FALSE, per_question |-> 0]
    /\ saved = NoneValue
    /\ exit_code = -1

\* lines 156-198: generation, the marker test, scoring, and the return of the
\* record (through the handler of lines 187-196 when a step raised)
AnswerStep ==
    /\ pc = "answer"
    /\ LET answered == answer_step(contextualized(questions[1].question,
                                                  envs[1].retrieval.value.value),
                                   envs[1], RAGAS_AVAILABLE)
       IN  /\ results' = <<answered.record>>
           /\ calls' = CallsOf(1, answered.calls)
    /\ pc' = "answered"
    /\ UNCHANGED <<openai_key, dataset, store>>
    /\ UNCHANGED chatVars
    /\ UNCHANGED <<questions, envs, RAGAS_AVAILABLE, verbose, output, stats,
                   printed, saved, exit_code>>
    /\ UNCHANGED <<ctxVars, genVars, scoreVars>>

NextAnswer == AnswerStep

SpecAnswer == InitAnswer /\ [][NextAnswer]_vars

\* llm_client.py lines 22-78: generate_response caught a failure of the
\* client, of the request or of the access to the first choice
GenerationFailed(service) ==
    \/ service.client.kind = "raise"
    \/ service.completion.kind = "raise"
    \/ Len(service.completion.value) = 0

-----------------------------------------------------------------------------
(* chat.py *)

\* lines 42-48: the wrapper around rag_client.initialize_rag_system(chroma_dir,
\* collection_name).  opened is the outcome of opening the store.  The value
\* is the collection object, or the tuple (None, False, str(e)) the handler
\* of lines 47-48 returns.
chat_initialize_rag_system(opened) ==
    LET r == call_initialize_rag_system(opened, 2)
    IN  IF r.kind = "raise"
        THEN Return([type |-> "tuple", error |-> r.msg])
        ELSE Return([type |-> "Collection", name |-> r.value])

\* lines 213-223: collection, success and error after the try statement
main_initialize(opened) ==
    LET r == chat_initialize_rag_system(opened)
    IN  IF r.kind = "return"
        THEN [collection |-> r.value, success |-> TRUE, error |-> NoneValue]
        ELSE [collection |-> NoneValue, success |-> FALSE, error |-> Some(r.msg)]

\* rag_client.py lines 96-129 applied to the value coll: collection.query is
\* looked up on it; retrieval is what the query of an opened collection does
rag_retrieve_documents(coll, retrieval) ==
    IF coll.type = "Collection" THEN retrieval
    ELSE Raise("'" \o coll.type \o "' object has no attribute 'query'")

\* The AttributeError of st.session_state for a key that was never set (the
\* start of its message)
MissingStateText(key) ==
    "st.session_state has no attribute \"" \o key \o "\". Did you forget to initialize it?"

\* lines 50-73: the wrapper around rag_client.retrieve_documents.  Its handler
\* appends to st.session_state.info_log or st.session_state.error_log before
\* it shows the error and returns None.
chat_retrieve_documents(ss, coll, retrieval) ==
    LET r == rag_retrieve_documents(coll, retrieval)
    IN  IF r.kind = "return" THEN r
        ELSE LET log == IF Contains(r.msg, "expecting embedding with dimension")
                        THEN "info_log" ELSE "error_log"
             IN  IF log \in DOMAIN ss THEN Return(NoneValue)
                 ELSE Raise(MissingStateText(log))

\* lines 81-88: the wrapper around llm_client.generate_response
chat_generate_response(service) ==
    LET g == generate_result(service)
    IN  IF g.kind = "raise" THEN Return(Some("Error generating response: " \o g.msg))
        ELSE g

\* lines 90-95: the wrapper around ragas_evaluator.evaluate_response_quality
chat_evaluate_response_quality(lib) ==
    LET r == evaluate_response_quality(lib)
    IN  IF r.kind = "raise"
        THEN Return("error" :> Str("Evaluation failed: " \o r.msg))
        ELSE r

\* lines 129-138: the session keys main sets when they are missing
SessionDefaults ==
    [messages |-> <<>>, current_backend |-> NoneValue,
     last_evaluation |-> NoneValue, last_contexts |-> <<>>,
     system_messages |-> <<>>]

\* An entry of st.session_state.system_messages (without its timestamp)
SystemMessage(message, type, severity) ==
    [message |-> message, type |-> type, severity |-> severity]

\* lines 346-377: the handler of the prompt's try statement for an exception
\* with message msg, reached after the external calls made.  ss holds the
\* user turn already.
prompt_failure(ss, msg, made) ==
    LET mismatch == Contains(msg, "expecting embedding with dimension")
        error_msg == "An error occurred: " \o msg
    IN  [session_state |->
            [ss EXCEPT !.system_messages =
                Append(@, SystemMessage(error_msg,
                          IF mismatch THEN "Embedding Dimension Mismatch"
                          ELSE "System Error",
                          IF mismatch THEN "info" ELSE "error"))],
         page      |-> <<IF mismatch THEN "System Warning (Persistent)"
                         ELSE "System Error (Persistent)", error_msg>>,
         stopped   |-> TRUE,
         made      |-> made,
         forwarded |-> NoneValue]

\* lines 296-381: generation with the context ctx, the marker test, the
\* evaluation and the assistant turn.  old is the conversation before the
\* prompt (st.session_state.messages[:-1]).  st.stop() leaves the script
\* through the handler of line 346, which catches Exception only.
prompt_answer(ss, old, env, enable_evaluation, ragas_available) ==
    LET g == chat_generate_response(env.service)
    IN  IF g.value = NoneValue
        THEN [prompt_failure(ss, "'NoneType' object has no attribute 'startswith'",
                             <<"retrieve", "generate">>)
                EXCEPT !.forwarded = Some(old)]
        ELSE IF StartsWith(g.value.value, "Error generating response:")
        THEN [session_state |->
                 [ss EXCEPT !.system_messages =
                     Append(@, SystemMessage(g.value.value, "LLM Generation Error",
                                             "error"))],
              page      |-> <<"Generation Error (Persistent)", g.value.value>>,
              stopped   |-> TRUE,
              made      |-> <<"retrieve", "generate">>,
              forwarded |-> Some(old)]
        ELSE LET evaluated == enable_evaluation /\ ragas_available
                 scored    == IF evaluated
                              THEN [ss EXCEPT !.last_evaluation =
                                       Some(chat_evaluate_response_quality(env.ragas).value)]
                              ELSE ss
             IN  [session_state |->
                     [scored EXCEPT !.messages =
                         Append(@, Message("assistant", g.value.value))],
                  page      |-> <<>>,
                  stopped   |-> FALSE,
                  made      |-> <<"retrieve", "generate">>
                                \o (IF evaluated THEN <<"score">> ELSE <<>>),
                  forwarded |-> Some(old)]

\* lines 259-381: what one submitted prompt does to the session
handle_prompt(ss, coll, prompt, env, enable_evaluation, ragas_available) ==
    LET asked     == [ss EXCEPT !.messages = Append(@, Message("user", prompt))]
        retrieved == chat_retrieve_documents(asked, coll, env.retrieval)
    IN  IF retrieved.kind = "raise"
        THEN prompt_failure(asked, retrieved.msg, <<"retrieve">>)
        ELSE IF no_documents(retrieved.value)
        THEN prompt_answer(asked, ss.messages, env, enable_evaluation, ragas_available)
        ELSE LET docs == retrieved.value.value
                 ctx  == chat_format_context(docs["documents"][1], docs["metadatas"][1],
                                             NoneValue, NoneValue)
             IN  IF ctx.kind = "raise"
                 THEN prompt_failure(asked, ctx.msg, <<"retrieve">>)
                 ELSE prompt_answer([asked EXCEPT !.last_contexts = docs["documents"][1]],
                                    ss.messages, env, enable_evaluation, ragas_available)

\* The context the generator is called with for the retrieval outcome
prompt_context(ss, coll, retrieval) ==
    LET retrieved == chat_retrieve_documents(ss, coll, retrieval)
    IN  IF retrieved.kind = "raise" \/ no_documents(retrieved.value) THEN ""
        ELSE LET ctx == chat_format_context(retrieved.value.value["documents"][1],
                                            retrieved.value.value["metadatas"][1],
                                            NoneValue, NoneValue)
             IN  IF ctx.kind = "return" THEN ctx.value ELSE ""

\* lines 124-256: a script run up to the chat input.  st.stop() ends the run.
StartRun ==
    /\ pc \in {"start", "stopped", "ended"}
    /\ LET ss   == session_state @@ SessionDefaults
           init == main_initialize(store)
       IN  IF available_backends = 0
           THEN /\ session_state' = ss
                /\ page' = <<"No ChromaDB backends found!">>
                /\ collection' = NoneValue
                /\ pc' = "stopped"
           ELSE IF ~Truthy(openai_key)
           THEN /\ session_state' = ss
                /\ page' = <<"Please enter your OpenAI API key">>
                /\ collection' = NoneValue
                /\ pc' = "stopped"
           ELSE /\ session_state' = [ss EXCEPT !.current_backend = Some("backend")]
                /\ IF init.success
                   THEN /\ page' = <<>>
                        /\ collection' = init.collection
                        /\ pc' = "input"
                   ELSE /\ page' = <<"Failed to initialize RAG system: "
                                       \o init.error.value>>
                        /\ collection' = NoneValue
                        /\ pc' = "stopped"
    /\ UNCHANGED <<available_backends, batchVarsButPc>>
    /\ UNCHANGED <<ctxVars, genVars, scoreVars>>

\* line 259: the run ends when no prompt was submitted
NoPrompt ==
    /\ pc = "input"
    /\ pc' = "ended"
    /\ UNCHANGED <<chatVars, batchVarsButPc>>
    /\ UNCHANGED <<ctxVars, genVars, scoreVars>>

\* lines 247-249: the button that clears the message log and reruns
ClearMessageLog ==
    /\ pc = "input"
    /\ Len(session_state.system_messages) > 0
    /\ session_state' = [session_state EXCEPT !.system_messages = <<>>]
    /\ pc' = "ended"
    /\ UNCHANGED <<available_backends, collection, page, batchVarsButPc>>
    /\ UNCHANGED <<ctxVars, genVars, scoreVars>>


MaxPrompts == 3

\* The user turns stored in the conversation
UserTurns(ms) == Len(SelectSeq(ms, LAMBDA t : t.role = "user"))

\* How the store, the generation service and the evaluation library answer
\* for one prompt
PromptEnvs ==
    { [retrieval |-> r, service |-> s, ragas |-> l] :
        r \in Retrievals, s \in Services,
        l \in { WorkingLibrary,
                [WorkingLibrary EXCEPT !.setup =
                    Raise("The api_key client option must be set")] } }

\* lines 259-381: a prompt is submitted and handled.  enable_evaluation is
\* the checkbox of line 203.
HandlePrompt ==
    /\ pc = "input"
    /\ UserTurns(session_state.messages) < MaxPrompts
    /\ \E env \in PromptEnvs, enable_evaluation \in BOOLEAN :
          LET out == handle_prompt(session_state, collection, UserMessage, env,
                                   enable_evaluation, RAGAS_AVAILABLE)
              ctx == prompt_context(session_state, collection, env.retrieval)
          IN  /\ session_state' = out.session_state
              /\ page' = out.page
              /\ pc' = IF out.stopped THEN "stopped" ELSE "ended"
              /\ calls' = calls \o CallsOf(UserTurns(session_state.messages) + 1,
                                           out.made)
              /\ IF out.forwarded # NoneValue
                 THEN /\ conversation_history' = out.forwarded.value
                      /\ context' = ctx
                      /\ llm' = env.service
                      /\ messages' = generate_request(UserMessage, ctx,
                                                      out.forwarded.value, env.service)
                      /\ gen' = chat_generate_response(env.service)
                 ELSE UNCHANGED genVars
    /\ UNCHANGED <<available_backends, collection>>
    /\ UNCHANGED <<openai_key, dataset, store, questions, envs, RAGAS_AVAILABLE,
                   verbose, output, results, stats, printed, saved, exit_code>>
    /\ UNCHANGED <<ctxVars, scoreVars>>

\* The page is opened: the stores found, the key typed in, and how the
\* selected store answers when it is opened
InitChat ==
    /\ IdleContext
    /\ IdleGen
    /\ IdleScore
    /\ available_backends \in 0..1
    /\ session_state = [k \in {} |-> NoneValue]
    /\ collection = NoneValue
    /\ page = <<>>
    /\ openai_key \in { Some(""), Some("sk-test") }
    /\ dataset = DatasetFile(TRUE, <<>>)
    /\ store \in Stores
    /\ questions = <<>>
    /\ envs = <<>>
    /\ RAGAS_AVAILABLE = TRUE
    /\ verbose = FALSE
    /\ output = NoneValue
    /\ pc = "start"
    /\ results = <<>>
    /\ calls = <<>>
    /\ stats = Idle
    /\ printed = [aggregate |-> FALSE, per_question |-> 0]
    /\ saved = NoneValue
    /\ exit_code = -1

NextChat ==
    \/ StartRun
    \/ NoPrompt
    \/ ClearMessageLog
    \/ HandlePrompt

\* The chat page over a sequence of script runs
SpecChat == InitChat /\ [][NextChat]_vars

-----------------------------------------------------------------------------
(* The conversation stored by the chat page *)

\* The turns alternate, the first one being a user turn
Alternating(ms) ==
    \A k \in 1..Len(ms) : ms[k].role = IF k % 2 = 1 THEN "user" ELSE "assistant"

\* C26: the conversation stored in st.session_state.messages alternates user
\* and assistant turns starting with a user turn, whatever happened to the
\* prompts submitted so far, and the history handed to the generator holds no
\* two user turns in a row.
C26_ConversationAlternates ==
    "messages" \in DOMAIN session_state =>
        /\ Alternating(session_state.messages)
        /\ \A k \in 1..Len(conversation_history) - 1 :
              ~(conversation_history[k].role = "user"
                /\ conversation_history[k + 1].role = "user")

-----------------------------------------------------------------------------
(* Initialization failures of the chat page *)

\* The notice text is among those the current run has shown
Shown(text) == \E k \in 1..Len(page) : StartsWith(page[k], text)

\* C27: when the store cannot be opened, a run that got past the key check
\* shows "Failed to initialize RAG system" and stops without reaching the
\* chat input, and no retrieval is ever attempted.
C27_InitializationFailureStops ==
    (store.kind = "raise" /\ available_backends > 0 /\ Truthy(openai_key)) =>
        /\ pc # "input"
        /\ pc # "start" => (pc = "stopped" /\ Shown("Failed to initialize RAG system"))
        /\ \A k \in 1..Len(calls) : calls[k].op # "retrieve"

====
